---- MODULE Spec2Model ----
(***************************************************************************)
(* Model of the Odoo data scripts (XML-RPC) and of the HTTP facade          *)
(* (simple-mcp-server.py).                                                  *)
(*                                                                          *)
(* One run of one script is a sequential program: pc names the statement    *)
(* about to run, the remote ERP is the environment.  Every remote call is   *)
(* one step; the remote either answers or raises.  Ids handed out by the    *)
(* remote are fresh numbers; rows that exist before the run have ids of      *)
(* 100 and above.                                                           *)
(***************************************************************************)
EXTENDS Integers, Sequences, FiniteSets, TLC

\* ------------------------------------------------------------------ bounds

\* How often, during one run, the remote may change between answering and
\* raising (0: it always answers).
MaxChanges == 2
\* How many rows a search_read may return.
MaxFound == 2
\* How far above its lowest possible length a list built with random.randint
\* may fall.
MaxExtra == 0

\* ------------------------------------------------------------ the scripts

ConfigFamily ==
    {"add_financial_data", "add_basic_financial_data", "real_odoo_data",
     "create_accounting_entries", "import_fixed_assets", "check_odoo_data"}
EnvFamily == {"dummy_ingest", "add_creditor_debitsaldo"}
Scripts == ConfigFamily \cup EnvFamily
\* Two more managers with the constructor and _authenticate of the config
\* family; they only read.
ReadingManagers == {"check_journal_entries", "simulate_balance_data"}
\* The scripts written as one function.
FunctionScripts == {"odoo_mcp_example", "test_odoo_mcp"}
\* The scripts that inspect the remote data.
InspectionScripts == {"check_odoo_data"} \cup ReadingManagers \cup FunctionScripts

\* A configuration value: absent (None), empty, or a non-empty string.
None == "<None>"
\* A test that takes the empty string for a value.
NotNone(v) == v # None
\* Python truth of an optional string.
Truthy(v) == v \notin {None, ""}
\* The values a configuration entry may hold: absent, empty, or a usable one.
Usable(key) ==
    CASE key = "url" -> "http://odoo"
      [] key = "db" -> "erp"
      [] key = "username" -> "admin"
      [] key = "password" -> "secret"
ConfigValues(key) ==
    {None, "", Usable(key)} \cup (IF key = "url" THEN {"odoo.local"} ELSE {})

\* Exceptions a remote call raises: a server-side fault (missing module,
\* validation rejection) or a transport error.  Both derive from Exception.
Kinds == {"Fault", "ProtocolError"}

VARIABLES
    script,     \* the script whose top-level operation runs
    pc,         \* the statement about to run
    url,        \* self.url
    db,         \* self.db
    username,   \* self.username
    password,   \* self.password
    uid,        \* self.uid (0: None or a falsy answer)
    i,          \* records of the current loop already handled
    j,          \* records of the inner loop already handled
    n,          \* length of the list the current loop walks
    cur,        \* id the current iteration's create returned (0: none)
    lists,      \* the id lists the script builds, by name
    outcome,    \* "running", "result" (a dict), "failure" (a dict with success
                \* False), "none" (None) or "raised"
    exc,        \* the exception that left the top-level operation, or ""
    down,       \* whether the remote raised on the last call
    changes,    \* changes between answering and raising so far
    nextId,     \* the id the remote gives the next created record
    created,    \* ids of the records the remote holds from this run
    posted,     \* ids whose confirm/post call the remote completed
    lastCall,   \* the most recent remote call and its answer
    authCalls,  \* number of common.authenticate calls sent
    authRes,    \* "none", "skipped", "ok", "falsy" or "raised"
    authUid,    \* what the authenticate call returned (0: nothing truthy)
    execCount,  \* number of execute_kw calls sent
    returned,   \* <<model, id>> pairs successful calls have returned
    attempts,   \* record numbers the current loop has attempted, in order
    loopName,   \* the loop attempts belongs to
    loopLen,    \* the number of records that loop walks
    steps,      \* the step methods the top-level operation has entered
    server_uid, \* the facade's server.uid (0: None)
    reqs,       \* the facade's HTTP requests, by number
    cfgFile,    \* the configuration file's content, or NoFile
    cfgEnv,     \* the environment variables
    config      \* what _load_config returned

progVars == <<script, pc, url, db, username, password, uid, i, j, n, cur, lists, outcome, exc>>
remoteVars == <<down, changes, nextId, created, posted>>
callVars == <<lastCall, execCount, returned>>
authVars == <<authCalls, authRes, authUid>>
loopVars == <<attempts, loopName, loopLen>>
facadeVars == <<server_uid, reqs>>
configVars == <<cfgFile, cfgEnv, config>>
scriptVars == <<progVars, remoteVars, callVars, authVars, loopVars, steps>>
vars == <<scriptVars, facadeVars, configVars>>

\* --------------------------------------------------------------- helpers

Range(s) == {s[k] : k \in DOMAIN s}

\* What a remote call may answer: a value, or an exception of some kind.
Answers == {[ok |-> TRUE, kind |-> ""]} \cup {[ok |-> FALSE, kind |-> k] : k \in Kinds}

\* What common.authenticate returns when it answers: False or a user id.
UidAnswers == {0, 7}

\* Ids of the rows a model holds before the run.
ModelNo(model) ==
    CASE model = "res.partner" -> 1
      [] model = "product.product" -> 2
      [] model = "account.journal" -> 3
      [] model = "account.account" -> 4
      [] model = "res.country" -> 5
      [] OTHER -> 9
ExistingId(model, row) == 100 * ModelNo(model) + row
Rows(model, k) == [row \in 1..k |-> ExistingId(model, row)]

PostMethods == {"action_post", "action_confirm", "button_confirm"}

NoCallYet ==
    [svc |-> "", method |-> "", model |-> "", uid |-> 0, rec |-> 0, ref |-> 0,
     arg |-> 0, ok |-> TRUE, err |-> "", res |-> <<>>]

\* The remote answers or raises; it changes between the two at most
\* MaxChanges times.
Remote(a) ==
    /\ (a.ok = down) => changes < MaxChanges
    /\ down' = ~a.ok
    /\ changes' = IF a.ok = down THEN changes + 1 ELSE changes

\* A handler that catches server faults only.
ExceptFault(kind) == kind = "Fault"
\* `except Exception`: catches every exception a remote call raises.
ExceptException(kind) == TRUE

\* An execute_kw that sends no uid.
ExecuteKwAnonymous(model, method, rec, ref, arg, a, res) ==
    /\ Remote(a)
    /\ nextId' = IF a.ok /\ method = "create" THEN nextId + 1 ELSE nextId
    /\ created' = IF a.ok /\ method = "create" THEN created \cup {nextId} ELSE created
    /\ posted' = IF a.ok /\ method \in PostMethods THEN posted \cup {arg} ELSE posted
    /\ lastCall' = [svc |-> "object", method |-> method, model |-> model, uid |-> 0,
                    rec |-> rec, ref |-> ref, arg |-> arg, ok |-> a.ok, err |-> a.kind,
                    res |-> IF a.ok THEN res ELSE <<>>]
    /\ execCount' = execCount + 1
    /\ returned' = IF a.ok /\ method \in {"create", "search_read"}
                     THEN returned \cup {<<model, id>> : id \in Range(res)}
                     ELSE returned
    /\ UNCHANGED <<facadeVars, configVars>>

\* models.execute_kw(db, uid, password, model, method, ...): rec is the number
\* of the record sent (0: none), ref the partner id the values of an invoice
\* name (0: not an invoice), arg the id the method is applied to (0: none),
\* res the ids answered when the call succeeds.
ExecuteKw(model, method, rec, ref, arg, a, res) ==
    /\ Remote(a)
    /\ nextId' = IF a.ok /\ method = "create" THEN nextId + 1 ELSE nextId
    /\ created' = IF a.ok /\ method = "create" THEN created \cup {nextId} ELSE created
    /\ posted' = IF a.ok /\ method \in PostMethods THEN posted \cup {arg} ELSE posted
    /\ lastCall' = [svc |-> "object", method |-> method, model |-> model, uid |-> uid,
                    rec |-> rec, ref |-> ref, arg |-> arg, ok |-> a.ok, err |-> a.kind,
                    res |-> IF a.ok THEN res ELSE <<>>]
    /\ execCount' = execCount + 1
    /\ returned' = IF a.ok /\ method \in {"create", "search_read"}
                     THEN returned \cup {<<model, id>> : id \in Range(res)}
                     ELSE returned
    /\ UNCHANGED <<facadeVars, configVars>>

\* A call on the common endpoint (authenticate, version).
CommonCall(method, a, res) ==
    /\ Remote(a)
    /\ lastCall' = [svc |-> "common", method |-> method, model |-> "", uid |-> 0,
                    rec |-> 0, ref |-> 0, arg |-> 0, ok |-> a.ok, err |-> a.kind,
                    res |-> IF a.ok THEN res ELSE <<>>]
    /\ UNCHANGED <<nextId, created, posted, execCount, returned>>
    /\ UNCHANGED <<facadeVars, configVars>>

NoCall == UNCHANGED <<remoteVars, callVars, facadeVars, configVars>>

\* ----------------------------------------------------------- control flow

\* The first statement of each step method a top-level operation calls.
StepEntries ==
    {"get_or_create_partners", "get_or_create_products", "create_selling_contracts",
     "create_open_invoices", "create_open_payments",
     "create_more_partners", "create_more_products", "create_quotes_and_orders",
     "create_opportunities", "create_tasks_and_projects",
     "add_contacts", "add_products", "add_employees", "add_sales_orders",
     "create_chart_of_accounts", "create_journal_entries", "create_invoices",
     "create_asset_categories", "create_fixed_assets", "create_depreciation_entries",
     "generate_assets_summary", "save_assets_data",
     "check_partners", "check_products", "check_sales_orders", "check_invoices",
     "_create_partners", "_create_products", "_create_sales_orders",
     "_create_purchase_orders", "_create_invoices", "_create_credit_notes",
     "_create_payments", "_create_assets", "_create_journal_entries",
     "create_creditor_partner", "create_debitsaldo_invoice", "create_credit_note",
     "verify_debitsaldo"}

Goto(next) ==
    /\ pc' = next
    /\ steps' = IF next \in StepEntries THEN Append(steps, next) ELSE steps
    /\ outcome' = IF next = "done" THEN "result" ELSE outcome
    /\ exc' = exc

Stay == UNCHANGED <<pc, steps, outcome, exc>>

\* A move inside the step method that is running.
Jump(next) ==
    /\ pc' = next
    /\ UNCHANGED <<steps, outcome, exc>>

ReturnNone ==
    /\ pc' = "done"
    /\ outcome' = "none"
    /\ UNCHANGED <<steps, exc>>

\* return {"success": False, "error": ...}
ReturnFailure ==
    /\ pc' = "done"
    /\ outcome' = "failure"
    /\ UNCHANGED <<steps, exc>>

Raise(e) ==
    /\ pc' = "done"
    /\ outcome' = "raised"
    /\ exc' = e
    /\ UNCHANGED steps

\* The fields set during construction, and the inner loop's counter.
fixedVars == <<script, url, db, username, password, uid, j>>

\* The loop at pc, which walks m records, attempts its record number i + 1.
Attempt(m) ==
    /\ attempts' = IF i = 0 THEN <<1>> ELSE Append(attempts, i + 1)
    /\ loopName' = pc
    /\ loopLen' = m

\* After record i + 1 of m: the next record, or the statement after the loop.
NextRecord(m, next) ==
    IF i + 1 < m
      THEN i' = i + 1 /\ n' = m /\ Stay
      ELSE i' = 0 /\ n' = 0 /\ Goto(next)

\* for record in records: try: id = create(record); ids.append(id)
\*                        except Exception: print(...)
\* sizes: the lengths the list may have; refs: the partner ids an invoice may
\* name (0: not an invoice).
CreateLoop(model, sizes, refs, out, next) ==
    \E m \in (IF i = 0 THEN sizes ELSE {n}), r \in refs, a \in Answers :
        /\ ExecuteKw(model, "create", i + 1, r, 0, a, <<nextId>>)
        /\ Attempt(m)
        /\ UNCHANGED <<fixedVars, authVars, cur>>
        /\ IF a.ok \/ ExceptException(a.kind)
             THEN /\ lists' = [lists EXCEPT ![out] = IF a.ok THEN Append(@, nextId) ELSE @]
                  /\ NextRecord(m, next)
             ELSE /\ UNCHANGED <<lists, i, n>>
                  /\ Raise(a.kind)

\* The create half of: try: id = create(record); post(id); ids.append(id)
\*                     except Exception: print(...)
CreateThenPost(model, sizes, refs, postpc, next) ==
    \E m \in (IF i = 0 THEN sizes ELSE {n}), r \in refs, a \in Answers :
        /\ ExecuteKw(model, "create", i + 1, r, 0, a, <<nextId>>)
        /\ Attempt(m)
        /\ UNCHANGED <<fixedVars, authVars, lists>>
        /\ IF a.ok
             THEN /\ cur' = nextId
                  /\ i' = i /\ n' = m
                  /\ Jump(postpc)
             ELSE IF ExceptException(a.kind)
                    THEN cur' = 0 /\ NextRecord(m, next)
                    ELSE UNCHANGED <<cur, i, n>> /\ Raise(a.kind)

\* A post half that posts the id the remote will hand out next.
PostNext(model, method, out, looppc, next) ==
    \E a \in Answers :
        /\ ExecuteKw(model, method, i + 1, 0, nextId, a, <<>>)
        /\ UNCHANGED <<fixedVars, authVars, loopVars>>
        /\ lists' = [lists EXCEPT ![out] = IF a.ok THEN Append(@, cur) ELSE @]
        /\ cur' = 0
        /\ IF i + 1 < n
             THEN i' = i + 1 /\ n' = n /\ Jump(looppc)
             ELSE i' = 0 /\ n' = 0 /\ Goto(next)
\* A post half that lists the id before it posts it.
PostCreatedListed(model, method, out, looppc, next) ==
    \E a \in Answers :
        /\ ExecuteKw(model, method, i + 1, 0, cur, a, <<>>)
        /\ UNCHANGED <<fixedVars, authVars, loopVars>>
        /\ lists' = [lists EXCEPT ![out] = Append(@, cur)]
        /\ cur' = 0
        /\ IF i + 1 < n
             THEN i' = i + 1 /\ n' = n /\ Jump(looppc)
             ELSE i' = 0 /\ n' = 0 /\ Goto(next)
\* The post half: the id joins the list only when the post call succeeds.
PostCreated(model, method, out, looppc, next) ==
    \E a \in Answers :
        /\ ExecuteKw(model, method, i + 1, 0, cur, a, <<>>)
        /\ UNCHANGED <<fixedVars, authVars, loopVars>>
        /\ IF a.ok \/ ExceptException(a.kind)
             THEN /\ lists' = [lists EXCEPT ![out] = IF a.ok THEN Append(@, cur) ELSE @]
                  /\ cur' = 0
                  /\ IF i + 1 < n
                       THEN i' = i + 1 /\ n' = n /\ Jump(looppc)
                       ELSE i' = 0 /\ n' = 0 /\ Goto(next)
             ELSE /\ UNCHANGED <<lists, cur, i, n>>
                  /\ Raise(a.kind)

\* A step that makes no call and adds nothing (`return []` on a guard).
SkipStep(next) ==
    /\ NoCall
    /\ Goto(next)
    /\ UNCHANGED <<fixedVars, authVars, loopVars, i, n, cur, lists>>

\* The lengths a list built by `for month in range(months):
\* for i in range(random.randint(lo, hi))` may have.
RandomLengths(months, lo, hi) ==
    {k \in (months * lo)..(months * hi) : k <= months * lo + MaxExtra}

\* ------------------------------------------------- construction and login

ListNames ==
    {"partner_ids", "product_ids", "contract_ids", "invoice_ids", "payment_ids",
     "quote_ids", "opportunity_ids", "project_ids", "employee_ids", "order_ids",
     "account_ids", "journal_entries", "category_ids", "assets", "depreciation_entries",
     "partners", "products", "sales_orders", "purchase_orders", "invoices",
     "credit_notes", "payments", "creditor_id", "invoice_id", "credit_id",
     "balance_info", "accounting_moves", "recent_entries", "supplier_partners",
     "asset_records", "depreciation_amounts", "summary"}

\* xmlrpc.client.ServerProxy accepts only http and https addresses.
SupportedUrl(u) == u = Usable("url")

\* The state when the constructor has copied the configuration into its
\* fields.  db steers no statement of the config family, and username none
\* of the env family (where it has a default): each is held at one value
\* there.
Configured(scripts) ==
    /\ script \in scripts
    /\ url \in ConfigValues("url")
    /\ db \in (IF script \in EnvFamily THEN ConfigValues("db") ELSE {Usable("db")})
    /\ username \in (IF script \in EnvFamily THEN {Usable("username")}
                                             ELSE ConfigValues("username"))
    /\ password \in ConfigValues("password")
    /\ pc = "__init__"
    /\ uid = 0
    /\ i = 0 /\ j = 0 /\ n = 0 /\ cur = 0
    /\ lists = [l \in ListNames |-> <<>>]
    /\ outcome = "running" /\ exc = ""
    /\ down = FALSE /\ changes = 0
    /\ nextId = 1 /\ created = {} /\ posted = {}
    /\ lastCall = NoCallYet /\ execCount = 0 /\ returned = {}
    /\ authCalls = 0 /\ authRes = "none" /\ authUid = 0
    /\ attempts = <<>> /\ loopName = "" /\ loopLen = 0
    /\ steps = <<>>

ScriptInit == Configured(Scripts)

\* No remote call was made and no step has run; s stands at statement at.
Fresh(s, at) ==
    /\ script = s
    /\ url = None /\ db = None /\ username = None /\ password = None
    /\ pc = at
    /\ uid = 0
    /\ i = 0 /\ j = 0 /\ n = 0 /\ cur = 0
    /\ lists = [l \in ListNames |-> <<>>]
    /\ outcome = "none" /\ exc = ""
    /\ down = FALSE /\ changes = 0
    /\ nextId = 1 /\ created = {} /\ posted = {}
    /\ lastCall = NoCallYet /\ execCount = 0 /\ returned = {}
    /\ authCalls = 0 /\ authRes = "none" /\ authUid = 0
    /\ attempts = <<>> /\ loopName = "" /\ loopLen = 0
    /\ steps = <<>>

\* No script runs: the facade and the config loader are modelled apart.
NoScript(at) == Fresh("", at)

\* The constructor of a config-family manager up to its _authenticate call:
\* the two ServerProxy objects are built from self.url.
__init__ ==
    /\ script \in ConfigFamily \cup ReadingManagers
    /\ pc = "__init__"
    /\ NoCall
    /\ UNCHANGED <<fixedVars, authVars, loopVars, i, n, cur, lists>>
    /\ IF SupportedUrl(url) THEN Goto("_authenticate") ELSE Raise("OSError")

\* _authenticate, and the assignment of its result to self.uid.
_authenticate ==
    /\ script \in ConfigFamily \cup ReadingManagers
    /\ pc = "_authenticate"
    /\ UNCHANGED <<script, url, db, username, password, loopVars, i, j, n, cur, lists>>
    /\ IF Truthy(username) /\ Truthy(password)
         THEN \E a \in Answers : \E u \in (IF a.ok THEN UidAnswers ELSE {0}) :
                /\ CommonCall("authenticate", a, <<u>>)
                /\ authCalls' = authCalls + 1
                /\ authRes' = IF ~a.ok THEN "raised" ELSE IF u # 0 THEN "ok" ELSE "falsy"
                /\ authUid' = u
                /\ uid' = u
                /\ IF a.ok \/ ExceptException(a.kind) THEN Jump("top") ELSE Raise(a.kind)
         ELSE /\ NoCall
              /\ authRes' = "skipped"
              /\ UNCHANGED <<authCalls, authUid>>
              /\ uid' = 0
              /\ Jump("top")

\* A connection test that reports success whatever the remote answers.
test_connection_ignored(a) == TRUE
\* test_connection: True when common.version() answered, False when it
\* raised an exception the handler catches.
test_connection(a) == a.ok

\* A top-level operation without the uid test.
TopLevelUnchecked(first) ==
    /\ pc = "top"
    /\ UNCHANGED <<fixedVars, authVars, loopVars, i, n, cur, lists>>
    /\ \E a \in Answers :
        /\ CommonCall("version", a, <<>>)
        /\ IF a.ok THEN Goto(first) ELSE ReturnNone
\* The head of a config-family top-level operation: `if not self.uid: return`,
\* then `if not self.test_connection(): return`, then the first step.
TopLevel(first) ==
    /\ pc = "top"
    /\ UNCHANGED <<fixedVars, authVars, loopVars, i, n, cur, lists>>
    /\ IF uid = 0
         THEN NoCall /\ ReturnNone
         ELSE \E a \in Answers :
                /\ CommonCall("version", a, <<>>)
                /\ IF test_connection(a)
                     THEN Goto(first)
                     ELSE IF ExceptException(a.kind) THEN ReturnNone ELSE Raise(a.kind)

\* A search that keeps the rows found and creates the defaults all the same.
SearchExistingAndCreate(model, limit, out, createpc, next) ==
    \E a \in Answers : \E k \in (IF a.ok THEN 0..limit ELSE {0}) :
        /\ k <= MaxFound
        /\ ExecuteKw(model, "search_read", 0, 0, 0, a, Rows(model, k))
        /\ UNCHANGED <<fixedVars, authVars, loopVars, i, n, cur>>
        /\ lists' = [lists EXCEPT ![out] = Rows(model, k)]
        /\ Goto(createpc)
\* try: rows = search_read(model, limit); if rows: return ids
\* except: pass -- then the records are created.
SearchExisting(model, limit, out, createpc, next) ==
    \E a \in Answers : \E k \in (IF a.ok THEN 0..limit ELSE {0}) :
        /\ k <= MaxFound
        /\ ExecuteKw(model, "search_read", 0, 0, 0, a, Rows(model, k))
        /\ UNCHANGED <<fixedVars, authVars, loopVars, i, n, cur>>
        /\ IF a.ok /\ k > 0
             THEN lists' = [lists EXCEPT ![out] = Rows(model, k)] /\ Goto(next)
             ELSE UNCHANGED lists /\ Goto(createpc)

\* ------------------------------------------------- add_financial_data.py

add_all_financial_data ==
    /\ script = "add_financial_data"
    /\ TopLevel("get_or_create_partners")

get_or_create_partners ==
    /\ script = "add_financial_data"
    /\ pc = "get_or_create_partners"
    /\ SearchExisting("res.partner", 5, "partner_ids",
                      "get_or_create_partners_create", "get_or_create_products")

get_or_create_partners_create ==
    /\ script = "add_financial_data"
    /\ pc = "get_or_create_partners_create"
    /\ CreateLoop("res.partner", {3}, {0}, "partner_ids", "get_or_create_products")

get_or_create_products ==
    /\ script = "add_financial_data"
    /\ pc = "get_or_create_products"
    /\ SearchExisting("product.product", 5, "product_ids",
                      "get_or_create_products_create", "create_selling_contracts")

get_or_create_products_create ==
    /\ script = "add_financial_data"
    /\ pc = "get_or_create_products_create"
    /\ CreateLoop("product.product", {3}, {0}, "product_ids", "create_selling_contracts")

create_selling_contracts ==
    /\ script = "add_financial_data"
    /\ pc = "create_selling_contracts"
    /\ IF lists["partner_ids"] = <<>> \/ lists["product_ids"] = <<>>
         THEN SkipStep("create_open_invoices")
         ELSE CreateLoop("sale.subscription", RandomLengths(6, 2, 4), {0},
                         "contract_ids", "create_open_invoices")

create_open_invoices ==
    /\ script = "add_financial_data"
    /\ pc = "create_open_invoices"
    /\ IF lists["partner_ids"] = <<>> \/ lists["product_ids"] = <<>>
         THEN SkipStep("create_open_payments")
         ELSE CreateThenPost("account.move", RandomLengths(3, 3, 6),
                             Range(lists["partner_ids"]), "create_open_invoices_post",
                             "create_open_payments")

create_open_invoices_post ==
    /\ script = "add_financial_data"
    /\ pc = "create_open_invoices_post"
    /\ PostCreated("account.move", "action_post", "invoice_ids", "create_open_invoices",
                   "create_open_payments")

create_open_payments ==
    /\ script = "add_financial_data"
    /\ pc = "create_open_payments"
    /\ IF lists["partner_ids"] = <<>>
         THEN SkipStep("done")
         ELSE CreateLoop("account.payment", RandomLengths(2, 2, 4), {0},
                         "payment_ids", "done")

\* ------------------------------------------- add_basic_financial_data.py

\* try: rows = search_read(model, limit); ids = [row ids]
\* except: ids = []
SearchInto(model, limit, out, next) ==
    \E a \in Answers : \E k \in (IF a.ok THEN 0..limit ELSE {0}) :
        /\ k <= MaxFound
        /\ ExecuteKw(model, "search_read", 0, 0, 0, a, Rows(model, k))
        /\ UNCHANGED <<fixedVars, authVars, loopVars, i, n, cur>>
        /\ lists' = [lists EXCEPT ![out] = IF a.ok THEN Rows(model, k) ELSE <<>>]
        /\ Goto(next)

add_all_basic_financial_data ==
    /\ script = "add_basic_financial_data"
    /\ TopLevel("existing_partners")

existing_partners ==
    /\ script = "add_basic_financial_data"
    /\ pc = "existing_partners"
    /\ SearchInto("res.partner", 10, "partner_ids", "existing_products")

existing_products ==
    /\ script = "add_basic_financial_data"
    /\ pc = "existing_products"
    /\ SearchInto("product.product", 10, "product_ids", "create_more_partners")

\* The new ids are appended to the existing ones: partner_ids here is the
\* script's all_partner_ids once the loop has ended.
create_more_partners ==
    /\ script = "add_basic_financial_data"
    /\ pc = "create_more_partners"
    /\ CreateLoop("res.partner", {5}, {0}, "partner_ids", "create_more_products")

create_more_products ==
    /\ script = "add_basic_financial_data"
    /\ pc = "create_more_products"
    /\ CreateLoop("product.product", {5}, {0}, "product_ids", "create_quotes_and_orders")

create_quotes_and_orders ==
    /\ script = "add_basic_financial_data"
    /\ pc = "create_quotes_and_orders"
    /\ IF lists["partner_ids"] = <<>> \/ lists["product_ids"] = <<>>
         THEN SkipStep("create_opportunities")
         ELSE CreateLoop("sale.order", RandomLengths(6, 2, 4), {0},
                         "quote_ids", "create_opportunities")

create_opportunities ==
    /\ script = "add_basic_financial_data"
    /\ pc = "create_opportunities"
    /\ IF lists["partner_ids"] = <<>> \/ lists["product_ids"] = <<>>
         THEN SkipStep("create_tasks_and_projects")
         ELSE CreateLoop("crm.lead", RandomLengths(3, 3, 6), {0},
                         "opportunity_ids", "create_tasks_and_projects")

\* The project half of the loop: the project id joins the list as soon as
\* its create returns, then the project's tasks are created.
create_tasks_and_projects ==
    /\ script = "add_basic_financial_data"
    /\ pc = "create_tasks_and_projects"
    /\ IF lists["partner_ids"] = <<>>
         THEN SkipStep("done")
         ELSE \E a \in Answers :
                /\ ExecuteKw("project.project", "create", i + 1, 0, 0, a, <<nextId>>)
                /\ Attempt(3)
                /\ UNCHANGED <<fixedVars, authVars>>
                /\ IF a.ok
                     THEN /\ lists' = [lists EXCEPT !["project_ids"] = Append(@, nextId)]
                          /\ cur' = nextId
                          /\ i' = i /\ n' = 3
                          /\ Jump("create_tasks_and_projects_task")
                     ELSE IF ExceptException(a.kind)
                            THEN UNCHANGED <<lists, cur>> /\ NextRecord(3, "done")
                            ELSE UNCHANGED <<lists, cur, i, n>> /\ Raise(a.kind)

\* for j in range(random.randint(3, 5)): try: create(task) except: print(...)
create_tasks_and_projects_task ==
    /\ script = "add_basic_financial_data"
    /\ pc = "create_tasks_and_projects_task"
    /\ \E a \in Answers, last \in BOOLEAN :
        /\ last => j + 1 \in RandomLengths(1, 3, 5)
        /\ ~last => \E k \in RandomLengths(1, 3, 5) : j + 1 < k
        /\ ExecuteKw("project.task", "create", j + 1, 0, cur, a, <<nextId>>)
        /\ UNCHANGED <<script, url, db, username, password, uid, authVars, loopVars, lists>>
        /\ IF ~last
             THEN j' = j + 1 /\ UNCHANGED <<i, n, cur>> /\ Stay
             ELSE /\ j' = 0
                  /\ cur' = 0
                  /\ IF i + 1 < n
                       THEN i' = i + 1 /\ n' = n /\ Jump("create_tasks_and_projects")
                       ELSE i' = 0 /\ n' = 0 /\ Goto("done")

\* ------------------------------------------------------ real_odoo_data.py

add_all_dummy_data ==
    /\ script = "real_odoo_data"
    /\ TopLevel("add_contacts")

add_contacts ==
    /\ script = "real_odoo_data"
    /\ pc = "add_contacts"
    /\ CreateLoop("res.partner", {3}, {0}, "partner_ids", "add_products")

add_products ==
    /\ script = "real_odoo_data"
    /\ pc = "add_products"
    /\ CreateLoop("product.product", {3}, {0}, "product_ids", "add_employees")

add_employees ==
    /\ script = "real_odoo_data"
    /\ pc = "add_employees"
    /\ CreateLoop("hr.employee", {3}, {0}, "employee_ids", "add_sales_orders")

add_sales_orders ==
    /\ script = "real_odoo_data"
    /\ pc = "add_sales_orders"
    /\ IF lists["partner_ids"] = <<>> \/ lists["product_ids"] = <<>>
         THEN SkipStep("done")
         ELSE CreateLoop("sale.order", {1}, {0}, "order_ids", "done")

\* ------------------------------------------- create_accounting_entries.py

create_all_accounting_entries ==
    /\ script = "create_accounting_entries"
    /\ TopLevel("create_chart_of_accounts")

create_chart_of_accounts ==
    /\ script = "create_accounting_entries"
    /\ pc = "create_chart_of_accounts"
    /\ CreateLoop("account.account", {15}, {0}, "account_ids", "create_journal_entries")

\* The entries are built before the loop starts; the third entry of each
\* month reads account_ids[6] with no length test.
create_journal_entries ==
    /\ script = "create_accounting_entries"
    /\ pc = "create_journal_entries"
    /\ IF lists["account_ids"] = <<>>
         THEN SkipStep("create_invoices")
         ELSE IF i = 0 /\ Len(lists["account_ids"]) <= 6
                THEN /\ NoCall
                     /\ Raise("IndexError")
                     /\ UNCHANGED <<fixedVars, authVars, loopVars, i, n, cur, lists>>
                ELSE CreateThenPost("account.move", {9}, {0},
                                    "create_journal_entries_post", "create_invoices")

create_journal_entries_post ==
    /\ script = "create_accounting_entries"
    /\ pc = "create_journal_entries_post"
    /\ PostCreated("account.move", "action_post", "journal_entries",
                   "create_journal_entries", "create_invoices")

\* try: rows = search_read(model, limit) except: rows = []
\* if not rows: return []
SearchOrReturn(model, limit, out, next, ret) ==
    \E a \in Answers : \E k \in (IF a.ok THEN 0..limit ELSE {0}) :
        /\ k <= MaxFound
        /\ ExecuteKw(model, "search_read", 0, 0, 0, a, Rows(model, k))
        /\ UNCHANGED <<fixedVars, authVars, loopVars, i, n, cur>>
        /\ IF a.ok /\ k > 0
             THEN lists' = [lists EXCEPT ![out] = Rows(model, k)] /\ Jump(next)
             ELSE UNCHANGED lists /\ Goto(ret)

create_invoices ==
    /\ script = "create_accounting_entries"
    /\ pc = "create_invoices"
    /\ IF lists["account_ids"] = <<>>
         THEN SkipStep("done")
         ELSE SearchOrReturn("res.partner", 5, "partner_ids", "create_invoices_products",
                             "done")

create_invoices_products ==
    /\ script = "create_accounting_entries"
    /\ pc = "create_invoices_products"
    /\ SearchOrReturn("product.product", 5, "product_ids", "create_invoices_create", "done")

create_invoices_create ==
    /\ script = "create_accounting_entries"
    /\ pc = "create_invoices_create"
    /\ CreateThenPost("account.move", {5}, Range(lists["partner_ids"]),
                      "create_invoices_post", "done")

create_invoices_post ==
    /\ script = "create_accounting_entries"
    /\ pc = "create_invoices_post"
    /\ PostCreated("account.move", "action_post", "invoice_ids", "create_invoices_create",
                   "done")

\* ------------------------------------------------- import_fixed_assets.py

import_all_fixed_assets ==
    /\ script = "import_fixed_assets"
    /\ TopLevel("create_asset_categories")

create_asset_categories ==
    /\ script = "import_fixed_assets"
    /\ pc = "create_asset_categories"
    /\ CreateLoop("account.asset.category", {5}, {0}, "category_ids", "create_fixed_assets")

create_fixed_assets ==
    /\ script = "import_fixed_assets"
    /\ pc = "create_fixed_assets"
    /\ IF lists["category_ids"] = <<>>
         THEN SkipStep("create_depreciation_entries")
         ELSE CreateThenPost("account.asset", {10}, {0}, "create_fixed_assets_write",
                             "create_depreciation_entries")

\* assets_data: the category slot, and the amounts in cents and the
\* depreciation_percentage in hundredths of a percent, of the ten assets.
AssetsData ==
    << [category |-> 1, original_value |-> 250000, depreciation_percentage |-> 2000,
        accumulated_depreciation |-> 100000, current_value |-> 150000],
       [category |-> 1, original_value |-> 180000, depreciation_percentage |-> 2000,
        accumulated_depreciation |-> 72000, current_value |-> 108000],
       [category |-> 2, original_value |-> 120000, depreciation_percentage |-> 1000,
        accumulated_depreciation |-> 30000, current_value |-> 90000],
       [category |-> 2, original_value |-> 45000, depreciation_percentage |-> 2000,
        accumulated_depreciation |-> 13500, current_value |-> 31500],
       [category |-> 3, original_value |-> 2500000, depreciation_percentage |-> 2000,
        accumulated_depreciation |-> 1000000, current_value |-> 1500000],
       [category |-> 4, original_value |-> 5000000, depreciation_percentage |-> 1000,
        accumulated_depreciation |-> 1500000, current_value |-> 3500000],
       [category |-> 5, original_value |-> 50000, depreciation_percentage |-> 3333,
        accumulated_depreciation |-> 16665, current_value |-> 33335],
       [category |-> 1, original_value |-> 1500000, depreciation_percentage |-> 2000,
        accumulated_depreciation |-> 600000, current_value |-> 900000],
       [category |-> 2, original_value |-> 200000, depreciation_percentage |-> 1000,
        accumulated_depreciation |-> 40000, current_value |-> 160000],
       [category |-> 1, original_value |-> 80000, depreciation_percentage |-> 2000,
        accumulated_depreciation |-> 24000, current_value |-> 56000] >>

\* category_ids[k] if len(category_ids) > k else 1, for the record's slot.
CategoryId(rec) ==
    LET k == AssetsData[rec].category
    IN  IF Len(lists["category_ids"]) >= k THEN lists["category_ids"][k] ELSE 1

\* The write of the accumulated depreciation; the asset joins created_assets
\* only when it succeeds.  "asset_records" holds, for each created asset, the
\* record of assets_data it was made from.
create_fixed_assets_write ==
    /\ script = "import_fixed_assets"
    /\ pc = "create_fixed_assets_write"
    /\ \E a \in Answers :
        /\ ExecuteKw("account.asset", "write", i + 1, 0, cur, a, <<>>)
        /\ UNCHANGED <<fixedVars, authVars, loopVars>>
        /\ IF a.ok \/ ExceptException(a.kind)
             THEN /\ lists' = [lists EXCEPT
                                 !["assets"] = IF a.ok THEN Append(@, cur) ELSE @,
                                 !["asset_records"] = IF a.ok THEN Append(@, i + 1) ELSE @]
                  /\ cur' = 0
                  /\ IF i + 1 < n
                       THEN i' = i + 1 /\ n' = n /\ Jump("create_fixed_assets")
                       ELSE i' = 0 /\ n' = 0 /\ Goto("create_depreciation_entries")
             ELSE /\ UNCHANGED <<lists, cur, i, n>>
                  /\ Raise(a.kind)

\* The dict appended to created_assets for the asset made from record rec.
CreatedAsset(id, rec) ==
    [id |-> id, name |-> rec,
     original_value |-> AssetsData[rec].original_value,
     accumulated_depreciation |-> AssetsData[rec].accumulated_depreciation,
     current_value |-> AssetsData[rec].current_value]

\* The list create_fixed_assets returns.
created_assets ==
    [k \in 1..Len(lists["assets"]) |->
        CreatedAsset(lists["assets"][k], lists["asset_records"][k])]

\* dict.get(key, default).
AssetGet(asset, key, default) ==
    IF key \in DOMAIN asset THEN asset[key] ELSE default

\* A step that calls nothing remote.
LocalStep(next) ==
    /\ NoCall
    /\ Goto(next)
    /\ UNCHANGED <<fixedVars, authVars, loopVars, i, n, cur>>

Months == 12
DefaultPercentage == 2000

\* Twelve monthly entries per asset, each naming its asset.
DepreciationEntries(assets) ==
    [k \in 1..(Months * Len(assets)) |-> assets[((k - 1) \div Months) + 1]]

\* original_value * (percentage / 100 / 12), in hundredths of a cent: the
\* original values are whole amounts, so the cents are divided out first.
MonthlyDepreciation(original_value, percentage) ==
    ((original_value \div 100) * percentage) \div Months

\* The amount of each entry of create_depreciation_entries.
DepreciationAmounts(assets) ==
    [k \in 1..(Months * Len(assets)) |->
        LET asset == assets[((k - 1) \div Months) + 1]
        IN  MonthlyDepreciation(asset.original_value,
                AssetGet(asset, "depreciation_percentage", DefaultPercentage))]

create_depreciation_entries ==
    /\ script = "import_fixed_assets"
    /\ pc = "create_depreciation_entries"
    /\ LocalStep("generate_assets_summary")
    /\ lists' = [lists EXCEPT
                   !["depreciation_entries"] = DepreciationEntries(lists["assets"]),
                   !["depreciation_amounts"] = DepreciationAmounts(created_assets)]

\* The categories dict of the summary, in insertion order: one entry per
\* key asset.get("category_name", "Unknown") with its count and value totals.
RECURSIVE GroupByCategory(_)
GroupByCategory(assets) ==
    IF assets = <<>> THEN <<>>
    ELSE LET asset == assets[Len(assets)]
             rest == GroupByCategory(SubSeq(assets, 1, Len(assets) - 1))
             key == AssetGet(asset, "category_name", "Unknown")
         IN  IF \E k \in DOMAIN rest : rest[k].category = key
               THEN [k \in DOMAIN rest |->
                        IF rest[k].category = key
                          THEN [category |-> key,
                                count |-> rest[k].count + 1,
                                original_value |-> rest[k].original_value
                                                   + asset.original_value,
                                current_value |-> rest[k].current_value
                                                  + asset.current_value]
                          ELSE rest[k]]
               ELSE Append(rest, [category |-> key, count |-> 1,
                                  original_value |-> asset.original_value,
                                  current_value |-> asset.current_value])

\* `if not assets: return {}`, else the summary, of which the categories.
generate_assets_summary ==
    /\ script = "import_fixed_assets"
    /\ pc = "generate_assets_summary"
    /\ LocalStep("save_assets_data")
    /\ lists' = [lists EXCEPT !["summary"] = GroupByCategory(created_assets)]

\* The three files are written to the working directory, taken as writable.
save_assets_data ==
    /\ script = "import_fixed_assets"
    /\ pc = "save_assets_data"
    /\ LocalStep("done")
    /\ UNCHANGED lists

\* ----------------------------------------------------- check_odoo_data.py

\* try: rows = search_read(model, limit); return rows
\* except Exception: return []
CheckRows(model, limit, out, next) ==
    \E a \in Answers : \E k \in (IF a.ok THEN 0..limit ELSE {0}) :
        /\ k <= MaxFound
        /\ ExecuteKw(model, "search_read", 0, 0, 0, a, Rows(model, k))
        /\ UNCHANGED <<fixedVars, authVars, loopVars, i, n, cur>>
        /\ IF a.ok \/ ExceptException(a.kind)
             THEN /\ lists' = [lists EXCEPT ![out] = IF a.ok THEN Rows(model, k) ELSE <<>>]
                  /\ Goto(next)
             ELSE UNCHANGED lists /\ Raise(a.kind)

\* The version check is written inline here, with the same outcome as
\* test_connection.
check_all_data ==
    /\ script = "check_odoo_data"
    /\ TopLevel("check_partners")

check_partners ==
    /\ script = "check_odoo_data"
    /\ pc = "check_partners"
    /\ CheckRows("res.partner", 20, "partner_ids", "check_products")

check_products ==
    /\ script = "check_odoo_data"
    /\ pc = "check_products"
    /\ CheckRows("product.product", 20, "product_ids", "check_sales_orders")

check_sales_orders ==
    /\ script = "check_odoo_data"
    /\ pc = "check_sales_orders"
    /\ CheckRows("sale.order", 20, "order_ids", "check_invoices")

check_invoices ==
    /\ script = "check_odoo_data"
    /\ pc = "check_invoices"
    /\ CheckRows("account.move", 20, "invoice_ids", "done")

\* ------------------------------------------------ the env family's login

\* The constructor of an env-family class: it refuses a missing url, db or
\* password, then builds the two ServerProxy objects.
OdooDummyIngest__init__ ==
    /\ script \in EnvFamily
    /\ pc = "__init__"
    /\ NoCall
    /\ UNCHANGED <<fixedVars, authVars, loopVars, i, n, cur, lists>>
    /\ IF ~(Truthy(url) /\ Truthy(db) /\ Truthy(password))
         THEN Raise("RuntimeError")
         ELSE IF SupportedUrl(url) THEN Jump("authenticate") ELSE Raise("OSError")

\* authenticate: no handler; a falsy answer raises RuntimeError.
authenticate ==
    /\ script \in EnvFamily
    /\ pc = "authenticate"
    /\ UNCHANGED <<script, url, db, username, password, loopVars, i, j, n, cur, lists>>
    /\ \E a \in Answers : \E u \in (IF a.ok THEN UidAnswers ELSE {0}) :
        /\ CommonCall("authenticate", a, <<u>>)
        /\ authCalls' = authCalls + 1
        /\ authRes' = IF ~a.ok THEN "raised" ELSE IF u # 0 THEN "ok" ELSE "falsy"
        /\ authUid' = u
        /\ uid' = IF a.ok THEN u ELSE uid
        /\ IF ~a.ok
             THEN Raise(a.kind)
             ELSE IF u = 0
                    THEN Raise("RuntimeError")
                    ELSE Goto(IF script = "dummy_ingest" THEN "_create_partners"
                                                          ELSE "create_creditor_partner")

\* -------------------------------------------------------- dummy_ingest.py

_create_partners ==
    /\ script = "dummy_ingest"
    /\ pc = "_create_partners"
    /\ CreateLoop("res.partner", {3}, {0}, "partners", "_create_partners_suppliers")

\* The loop over the two suppliers (supplier_rank = 1) appends to the same
\* partners list; "supplier_partners" keeps apart the ids this loop got.
_create_partners_suppliers ==
    /\ script = "dummy_ingest"
    /\ pc = "_create_partners_suppliers"
    /\ \E a \in Answers :
        /\ ExecuteKw("res.partner", "create", i + 1, 0, 0, a, <<nextId>>)
        /\ Attempt(2)
        /\ UNCHANGED <<fixedVars, authVars, cur>>
        /\ IF a.ok \/ ExceptException(a.kind)
             THEN /\ lists' = [lists EXCEPT
                                 !["partners"] = IF a.ok THEN Append(@, nextId) ELSE @,
                                 !["supplier_partners"] = IF a.ok THEN Append(@, nextId) ELSE @]
                  /\ NextRecord(2, "_create_products")
             ELSE /\ UNCHANGED <<lists, i, n>>
                  /\ Raise(a.kind)

_create_products ==
    /\ script = "dummy_ingest"
    /\ pc = "_create_products"
    /\ CreateLoop("product.product", {4}, {0}, "products", "_create_sales_orders")

\* run passes the whole partners list both as customers and as suppliers.
customers == lists["partners"]
suppliers == lists["partners"]

\* One try block of a step method, as record i + 1 of size: building the
\* values reads products[needs - 1], which raises IndexError inside the try
\* when the list is shorter; then come the create and the post call.
TryCreate(model, size, needs, ref, postpc, next) ==
    IF Len(lists["products"]) < needs
      THEN /\ NoCall
           /\ Attempt(size)
           /\ UNCHANGED <<fixedVars, authVars, lists, cur>>
           /\ IF ExceptException("IndexError")
                THEN NextRecord(size, next)
                ELSE UNCHANGED <<i, n>> /\ Raise("IndexError")
      ELSE CreateThenPost(model, {size}, {ref}, postpc, next)

_create_sales_orders ==
    /\ script = "dummy_ingest"
    /\ pc = "_create_sales_orders"
    /\ IF customers = <<>> \/ lists["products"] = <<>>
         THEN SkipStep("_create_purchase_orders")
         ELSE TryCreate("sale.order", 1, 3, 0, "_create_sales_orders_confirm",
                        "_create_purchase_orders")

_create_sales_orders_confirm ==
    /\ script = "dummy_ingest"
    /\ pc = "_create_sales_orders_confirm"
    /\ PostCreated("sale.order", "action_confirm", "sales_orders", "_create_sales_orders",
                   "_create_purchase_orders")

_create_purchase_orders ==
    /\ script = "dummy_ingest"
    /\ pc = "_create_purchase_orders"
    /\ IF suppliers = <<>> \/ lists["products"] = <<>>
         THEN SkipStep("_create_invoices")
         ELSE TryCreate("purchase.order", 1, 3, 0, "_create_purchase_orders_confirm",
                        "_create_invoices")

_create_purchase_orders_confirm ==
    /\ script = "dummy_ingest"
    /\ pc = "_create_purchase_orders_confirm"
    /\ PostCreated("purchase.order", "button_confirm", "purchase_orders",
                   "_create_purchase_orders", "_create_invoices")


\* The products each of the three invoices needs, and the partner it names.
InvoiceNeeds == <<3, 2, 2>>
InvoicePartner ==
    <<customers[1], IF Len(customers) > 1 THEN customers[2] ELSE customers[1], suppliers[1]>>

_create_invoices ==
    /\ script = "dummy_ingest"
    /\ pc = "_create_invoices"
    /\ IF customers = <<>> \/ lists["products"] = <<>>
         THEN SkipStep("_create_credit_notes")
         ELSE TryCreate("account.move", 3, InvoiceNeeds[i + 1], InvoicePartner[i + 1],
                        "_create_invoices_post", "_create_credit_notes")

_create_invoices_post ==
    /\ script = "dummy_ingest"
    /\ pc = "_create_invoices_post"
    /\ PostCreated("account.move", "action_post", "invoices", "_create_invoices",
                   "_create_credit_notes")

\* The customer credit note reads products[0], the supplier one products[1].
_create_credit_notes ==
    /\ script = "dummy_ingest"
    /\ pc = "_create_credit_notes"
    /\ IF customers = <<>> \/ lists["products"] = <<>>
         THEN SkipStep("_create_payments")
         ELSE TryCreate("account.move", 2, i + 1, IF i = 0 THEN customers[1] ELSE suppliers[1],
                        "_create_credit_notes_post", "_create_payments")

_create_credit_notes_post ==
    /\ script = "dummy_ingest"
    /\ pc = "_create_credit_notes_post"
    /\ PostCreated("account.move", "action_post", "credit_notes", "_create_credit_notes",
                   "_create_payments")

_create_payments ==
    /\ script = "dummy_ingest"
    /\ pc = "_create_payments"
    /\ IF customers = <<>> \/ lists["invoices"] = <<>>
         THEN SkipStep("_create_assets")
         ELSE CreateThenPost("account.payment", {2}, {0}, "_create_payments_post",
                             "_create_assets")

_create_payments_post ==
    /\ script = "dummy_ingest"
    /\ pc = "_create_payments_post"
    /\ PostCreated("account.payment", "action_post", "payments", "_create_payments",
                   "_create_assets")

_create_assets ==
    /\ script = "dummy_ingest"
    /\ pc = "_create_assets"
    /\ CreateLoop("account.asset", {2}, {0}, "assets", "_create_journal_entries")

\* One search_read of _create_journal_entries, inside its single try: fewer
\* than least rows end the method, which returns its empty list.
SearchInTry(model, limit, least, next, ret) ==
    \E a \in Answers : \E k \in (IF a.ok THEN 0..limit ELSE {0}) :
        /\ k <= MaxFound
        /\ ExecuteKw(model, "search_read", 0, 0, 0, a, Rows(model, k))
        /\ UNCHANGED <<fixedVars, authVars, loopVars, i, n, cur, lists>>
        /\ IF a.ok
             THEN IF k >= least THEN Jump(next) ELSE Goto(ret)
             ELSE IF ExceptException(a.kind) THEN Goto(ret) ELSE Raise(a.kind)

_create_journal_entries ==
    /\ script = "dummy_ingest"
    /\ pc = "_create_journal_entries"
    /\ SearchInTry("account.journal", 1, 1, "_create_journal_entries_accounts", "done")

_create_journal_entries_accounts ==
    /\ script = "dummy_ingest"
    /\ pc = "_create_journal_entries_accounts"
    /\ SearchInTry("account.account", 10, 2, "_create_journal_entries_create", "done")

_create_journal_entries_create ==
    /\ script = "dummy_ingest"
    /\ pc = "_create_journal_entries_create"
    /\ CreateThenPost("account.move", {1}, {0}, "_create_journal_entries_post", "done")

\* A last step that returns the entry it created without posting it.
_create_journal_entries_unposted ==
    /\ script = "dummy_ingest"
    /\ pc = "_create_journal_entries_post"
    /\ NoCall
    /\ UNCHANGED <<fixedVars, authVars, loopVars>>
    /\ lists' = [lists EXCEPT !["journal_entries"] = Append(@, cur)]
    /\ cur' = 0 /\ i' = 0 /\ n' = 0
    /\ Goto("done")

_create_journal_entries_post ==
    /\ script = "dummy_ingest"
    /\ pc = "_create_journal_entries_post"
    /\ PostCreated("account.move", "action_post", "journal_entries",
                   "_create_journal_entries_create", "done")

\* --------------------------------------------- add_creditor_debitsaldo.py

\* A lookup whose only use is an optional value: try: rows = search_read(...)
\* except: pass.  Whatever it answers, the caller goes on.
Lookup(model, next) ==
    \E a \in Answers : \E k \in (IF a.ok THEN 0..1 ELSE {0}) :
        /\ k <= MaxFound
        /\ ExecuteKw(model, "search_read", 0, 0, 0, a, Rows(model, k))
        /\ UNCHANGED <<fixedVars, authVars, loopVars, i, n, cur, lists>>
        /\ Jump(next)

\* _get_expense_account_id, first search: an expense account ends the
\* lookup, anything else leads to the fallback search.
_get_expense_account_id(fallbackpc, next) ==
    \E a \in Answers : \E k \in (IF a.ok THEN 0..1 ELSE {0}) :
        /\ k <= MaxFound
        /\ ExecuteKw("account.account", "search_read", 0, 0, 0, a,
                     Rows("account.account", k))
        /\ UNCHANGED <<fixedVars, authVars, loopVars, i, n, cur, lists>>
        /\ IF a.ok /\ k > 0 THEN Jump(next) ELSE Jump(fallbackpc)

\* create_creditor_partner begins with _get_country_id("NL").
create_creditor_partner ==
    /\ script = "add_creditor_debitsaldo"
    /\ pc = "create_creditor_partner"
    /\ Lookup("res.country", "create_creditor_partner_create")

\* A create after which run goes on whatever the step returned.
CreateOrContinue(model, ref, out, next) ==
    \E a \in Answers :
        /\ ExecuteKw(model, "create", 1, ref, 0, a, <<nextId>>)
        /\ UNCHANGED <<fixedVars, authVars, loopVars, i, n, cur>>
        /\ lists' = [lists EXCEPT ![out] = IF a.ok THEN <<nextId>> ELSE @]
        /\ Goto(next)
\* One create whose id the step returns; run gives up when it is None.
CreateOrFail(model, ref, out, next) ==
    \E a \in Answers :
        /\ ExecuteKw(model, "create", 1, ref, 0, a, <<nextId>>)
        /\ UNCHANGED <<fixedVars, authVars, loopVars, i, n, cur>>
        /\ IF a.ok
             THEN lists' = [lists EXCEPT ![out] = <<nextId>>] /\ Goto(next)
             ELSE /\ UNCHANGED lists
                  /\ IF ExceptException(a.kind) THEN ReturnFailure ELSE Raise(a.kind)

create_creditor_partner_create ==
    /\ script = "add_creditor_debitsaldo"
    /\ pc = "create_creditor_partner_create"
    /\ CreateOrFail("res.partner", 0, "creditor_id", "create_debitsaldo_invoice")

\* The create of an invoice or credit note naming the creditor.
CreateMove(postpc) ==
    \E a \in Answers :
        /\ ExecuteKw("account.move", "create", 1, lists["creditor_id"][1], 0, a, <<nextId>>)
        /\ UNCHANGED <<fixedVars, authVars, loopVars, i, n, lists>>
        /\ IF a.ok
             THEN cur' = nextId /\ Jump(postpc)
             ELSE /\ UNCHANGED cur
                  /\ IF ExceptException(a.kind) THEN ReturnFailure ELSE Raise(a.kind)

\* action_post of the move just created; the step returns its id only when
\* the post call succeeds.
PostMove(out, next) ==
    \E a \in Answers :
        /\ ExecuteKw("account.move", "action_post", 1, 0, cur, a, <<>>)
        /\ UNCHANGED <<fixedVars, authVars, loopVars, i, n>>
        /\ cur' = 0
        /\ IF a.ok
             THEN lists' = [lists EXCEPT ![out] = <<cur>>] /\ Goto(next)
             ELSE /\ UNCHANGED lists
                  /\ IF ExceptException(a.kind) THEN ReturnFailure ELSE Raise(a.kind)

create_debitsaldo_invoice ==
    /\ script = "add_creditor_debitsaldo"
    /\ pc = "create_debitsaldo_invoice"
    /\ _get_expense_account_id("create_debitsaldo_invoice_fallback",
                               "create_debitsaldo_invoice_create")

create_debitsaldo_invoice_fallback ==
    /\ script = "add_creditor_debitsaldo"
    /\ pc = "create_debitsaldo_invoice_fallback"
    /\ Lookup("account.account", "create_debitsaldo_invoice_create")

create_debitsaldo_invoice_create ==
    /\ script = "add_creditor_debitsaldo"
    /\ pc = "create_debitsaldo_invoice_create"
    /\ CreateMove("create_debitsaldo_invoice_post")

create_debitsaldo_invoice_post ==
    /\ script = "add_creditor_debitsaldo"
    /\ pc = "create_debitsaldo_invoice_post"
    /\ PostMove("invoice_id", "create_credit_note")

create_credit_note ==
    /\ script = "add_creditor_debitsaldo"
    /\ pc = "create_credit_note"
    /\ _get_expense_account_id("create_credit_note_fallback", "create_credit_note_create")

create_credit_note_fallback ==
    /\ script = "add_creditor_debitsaldo"
    /\ pc = "create_credit_note_fallback"
    /\ Lookup("account.account", "create_credit_note_create")

create_credit_note_create ==
    /\ script = "add_creditor_debitsaldo"
    /\ pc = "create_credit_note_create"
    /\ CreateMove("create_credit_note_post")

create_credit_note_post ==
    /\ script = "add_creditor_debitsaldo"
    /\ pc = "create_credit_note_post"
    /\ PostMove("credit_id", "verify_debitsaldo")

\* The price of the supplier invoice's line and of the credit note's line.
InvoicePrice == 1500
CreditNotePrice == 500

\* What the remote holds for the creditor once both moves are posted: debit
\* is the total payable (the invoice less the credit note), credit the total
\* receivable.
PartnerRead == [debit |-> InvoicePrice - CreditNotePrice, credit |-> 0]

\* The dict verify_debitsaldo builds from the row read: debit, credit and
\* balance = debit - credit; has_debitsaldo is balance > 0.
BalanceInfo(partner) == <<partner.debit, partner.credit, partner.debit - partner.credit>>

\* balance_info.get("has_debitsaldo"), on the dict or on {}.
has_debitsaldo(info) == Len(info) = 3 /\ info[3] > 0

\* verify_debitsaldo reads the creditor and returns the balance dict, or {}
\* when the read raises; run returns its success dict whatever it returned.
verify_debitsaldo ==
    /\ script = "add_creditor_debitsaldo"
    /\ pc = "verify_debitsaldo"
    /\ \E a \in Answers :
        /\ ExecuteKw("res.partner", "read", 0, 0, lists["creditor_id"][1], a, <<>>)
        /\ UNCHANGED <<fixedVars, authVars, loopVars, i, n, cur>>
        /\ lists' = [lists EXCEPT !["balance_info"] =
                        IF a.ok THEN BalanceInfo(PartnerRead) ELSE <<>>]
        /\ IF a.ok \/ ExceptException(a.kind) THEN Goto("done") ELSE Raise(a.kind)

\* -------------------------------------------------- simple-mcp-server.py

\* How many HTTP requests the facade receives.
MaxRequests == 2

Requests == 1..MaxRequests
Verbs == {"GET", "POST"}
Routes ==
    {"/health", "/odoo://models", "/odoo://model/{model}",
     "/odoo://search/{model}/{domain}", "/api/execute"}

\* Every route is registered with @app.route(path) and no methods argument:
\* Starlette registers a function endpoint without methods for GET only.
AllowedMethods(route) == {"GET"}

PathModels == {"res.partner", "account.move"}

\* json.loads of the {domain} path segment.
DomainStrings == {"[]", "[[\"id\", \">\", 0]]", "id>0"}
ParseDomain(str) ==
    CASE str = "[]" -> [ok |-> TRUE, value |-> <<>>]
      [] str = "[[\"id\", \">\", 0]]" -> [ok |-> TRUE, value |-> << <<"id", ">", "0">> >>]
      [] OTHER -> [ok |-> FALSE, value |-> <<>>]

\* The bodies a request may carry: none that parses to a JSON object, an
\* empty object, an object naming the model only, a full object.
BodyKeys == {"model", "domain", "fields", "limit"}
FullBody ==
    [model |-> <<"res.partner">>, domain |-> << <<"id", ">", "0">> >>,
     fields |-> <<"id">>, limit |-> <<5>>]
Bodies ==
    {[ok |-> FALSE, json |-> [k \in {} |-> <<>>]],
     [ok |-> TRUE, json |-> [k \in {} |-> <<>>]],
     [ok |-> TRUE, json |-> [k \in {"model"} |-> <<"account.move">>]],
     [ok |-> TRUE, json |-> [k \in BodyKeys |-> FullBody[k]]]}

\* body.get(key, default); a value is kept in a one-element tuple.
BodyGet(body, key, default) == IF key \in DOMAIN body THEN body[key][1] ELSE default

NoArgs == [model |-> "", domain |-> <<>>, fields |-> <<>>, limit |-> 0]
NoSent == [uid |-> 0, model |-> "", method |-> "", domain |-> <<>>, fields |-> <<>>,
           limit |-> 0]
NoAnswer == [kind |-> "", rows |-> <<>>]
NoBody == [kind |-> "", model |-> "", data |-> <<>>, error |-> ""]

IdleRequest ==
    [pc |-> "idle", verb |-> "", route |-> "", handler |-> "", pathModel |-> "",
     args |-> NoArgs, auths |-> 0, calls |-> 0, sent |-> NoSent, answer |-> NoAnswer,
     status |-> 0, body |-> NoBody]

\* What the remote may answer to call_kw: status 200 with a result, status
\* 200 with an error, another status, or no answer (the post raises).
RemoteRows == {<<>>, <<1>>}
CallAnswers ==
    {[kind |-> "result", rows |-> d] : d \in RemoteRows}
      \cup {[kind |-> k, rows |-> <<>>] : k \in {"error", "status", "raise"}}

\* What the remote may answer to /web/session/authenticate: a session with a
\* uid, a session without one, a falsy or missing result, another status, or
\* no answer.
AuthAnswers == {"uid", "nouid", "falsy", "status", "raise"}

\* A response that reports every failure as an error.
SearchReadOutcomeStrict(a) ==
    CASE a.kind = "result" -> [kind |-> "success", model |-> "", data |-> a.rows, error |-> ""]
      [] OTHER -> [kind |-> "error", model |-> "", data |-> <<>>, error |-> a.kind]
\* What search_read and get_models return for an answer: success and the
\* rows, the remote's error, None for a status other than 200 (no return
\* statement is reached), or the exception's text.
SearchReadOutcome(a) ==
    CASE a.kind = "result" -> [kind |-> "success", model |-> "", data |-> a.rows, error |-> ""]
      [] a.kind = "error" -> [kind |-> "error", model |-> "", data |-> <<>>, error |-> "remote"]
      [] a.kind = "status" -> [kind |-> "null", model |-> "", data |-> <<>>, error |-> ""]
      [] a.kind = "raise" -> [kind |-> "error", model |-> "", data |-> <<>>, error |-> "raise"]

ErrorBody(text) == [kind |-> "error", model |-> "", data |-> <<>>, error |-> text]

Received(verb, route, handler) ==
    [IdleRequest EXCEPT !.verb = verb, !.route = route, !.handler = handler]

Respond(req, status, body) == [req EXCEPT !.pc = "done", !.status = status, !.body = body]

FacadeStep == UNCHANGED <<scriptVars, configVars>>

\* Starlette answers a method the route does not allow with 405; no
\* endpoint function runs.
MethodNotAllowed ==
    \E r \in Requests, v \in Verbs, route \in Routes :
        /\ reqs[r].pc = "idle"
        /\ v \notin AllowedMethods(route)
        /\ reqs' = [reqs EXCEPT ![r] = Respond(Received(v, route, ""), 405,
                        [NoBody EXCEPT !.kind = "method_not_allowed"])]
        /\ UNCHANGED server_uid
        /\ FacadeStep

health ==
    \E r \in Requests, v \in AllowedMethods("/health") :
        /\ reqs[r].pc = "idle"
        /\ reqs' = [reqs EXCEPT ![r] = Respond(Received(v, "/health", "health"), 200,
                        [NoBody EXCEPT !.kind = "health"])]
        /\ UNCHANGED server_uid
        /\ FacadeStep

get_model_info ==
    \E r \in Requests, v \in AllowedMethods("/odoo://model/{model}"), m \in PathModels :
        /\ reqs[r].pc = "idle"
        /\ reqs' = [reqs EXCEPT ![r] =
                        Respond([Received(v, "/odoo://model/{model}", "get_model_info")
                                    EXCEPT !.pathModel = m],
                                200, [NoBody EXCEPT !.kind = "model_info", !.model = m])]
        /\ UNCHANGED server_uid
        /\ FacadeStep

\* The endpoint awaits server.get_models().
get_models ==
    \E r \in Requests, v \in AllowedMethods("/odoo://models") :
        /\ reqs[r].pc = "idle"
        /\ reqs' = [reqs EXCEPT ![r] =
                        [Received(v, "/odoo://models", "get_models") EXCEPT
                            !.pc = "enter",
                            !.args = [model |-> "ir.model", domain |-> <<>>,
                                      fields |-> <<"model", "name">>, limit |-> 0]]]
        /\ UNCHANGED server_uid
        /\ FacadeStep

search_records ==
    \E r \in Requests, v \in AllowedMethods("/odoo://search/{model}/{domain}"),
       m \in PathModels, d \in DomainStrings :
        /\ reqs[r].pc = "idle"
        /\ LET req == [Received(v, "/odoo://search/{model}/{domain}", "search_records")
                          EXCEPT !.pathModel = m]
               domain == ParseDomain(d)
           IN  reqs' = [reqs EXCEPT ![r] =
                   IF domain.ok
                     THEN [req EXCEPT !.pc = "enter",
                                      !.args = [model |-> m, domain |-> domain.value,
                                                fields |-> <<"id", "name">>, limit |-> 100]]
                     ELSE Respond(req, 200, ErrorBody("Invalid domain format"))]
        /\ UNCHANGED server_uid
        /\ FacadeStep

execute_query ==
    \E r \in Requests, v \in AllowedMethods("/api/execute"), b \in Bodies :
        /\ reqs[r].pc = "idle"
        /\ LET req == Received(v, "/api/execute", "execute_query")
           IN  reqs' = [reqs EXCEPT ![r] =
                   IF b.ok
                     THEN [req EXCEPT !.pc = "enter",
                              !.args = [model |-> BodyGet(b.json, "model", "account.move"),
                                        domain |-> BodyGet(b.json, "domain", <<>>),
                                        fields |-> BodyGet(b.json, "fields", <<"id", "name">>),
                                        limit |-> BodyGet(b.json, "limit", 100)]]
                     ELSE Respond(req, 200, ErrorBody("body"))]
        /\ UNCHANGED server_uid
        /\ FacadeStep

\* The call_kw request search_read or get_models builds for the uid at hand.
CallKw(req, u) ==
    [req EXCEPT !.pc = "call", !.calls = @ + 1,
                !.sent = [uid |-> u, model |-> req.args.model, method |-> "search_read",
                          domain |-> req.args.domain, fields |-> req.args.fields,
                          limit |-> req.args.limit]]

\* The body of search_read and of get_models up to its first await: with no
\* uid it awaits authenticate(), otherwise it posts the call.
EnterCall(r) ==
    /\ reqs[r].pc = "enter"
    /\ reqs' = [reqs EXCEPT ![r] =
                    IF server_uid = 0
                      THEN [@ EXCEPT !.pc = "auth", !.auths = @ + 1]
                      ELSE CallKw(@, server_uid)]
    /\ UNCHANGED server_uid
    /\ FacadeStep

search_read ==
    \E r \in Requests :
        /\ reqs[r].handler \in {"search_records", "execute_query"}
        /\ EnterCall(r)

SimpleMCPOdooServer_get_models ==
    \E r \in Requests :
        /\ reqs[r].handler = "get_models"
        /\ EnterCall(r)

\* The uid authenticate() leaves: the session's uid, None when the session
\* names none, and the old one when line 51 is not reached.
UidAfter(a, old) == CASE a = "uid" -> 7 [] a = "nouid" -> 0 [] OTHER -> old

\* authenticate() is answered; its caller goes on to the second check of
\* self.uid and, with a uid, posts the call.
authenticate_answered ==
    \E r \in Requests, a \in AuthAnswers :
        /\ reqs[r].pc = "auth"
        /\ server_uid' = UidAfter(a, server_uid)
        /\ reqs' = [reqs EXCEPT ![r] =
                        IF server_uid' = 0
                          THEN Respond(@, 200, ErrorBody("Authentication failed"))
                          ELSE CallKw(@, server_uid')]
        /\ FacadeStep

\* The call is answered and the endpoint wraps what the method returns in a
\* JSONResponse.
call_kw_answered ==
    \E r \in Requests, a \in CallAnswers :
        /\ reqs[r].pc = "call"
        /\ reqs' = [reqs EXCEPT ![r] =
                        Respond([@ EXCEPT !.answer = a], 200, SearchReadOutcome(a))]
        /\ UNCHANGED server_uid
        /\ FacadeStep

\* ------------------------------------------------- _load_config

ConfigKeys == {"url", "db", "username", "password"}
EnvName(key) ==
    CASE key = "url" -> "ODOO_URL"
      [] key = "db" -> "ODOO_DB"
      [] key = "username" -> "ODOO_USERNAME"
      [] key = "password" -> "ODOO_PASSWORD"
EnvNames == {EnvName(k) : k \in ConfigKeys}

\* odoo_config.json: absent, or a JSON object with any of the keys.
NoKeys == [k \in {} |-> ""]
NoFile == [exists |-> FALSE, json |-> NoKeys]
Files ==
    {NoFile} \cup
    {[exists |-> TRUE, json |-> f] :
        f \in UNION {[K -> {"", "from-file"}] : K \in SUBSET ConfigKeys}}

\* The environment: each variable unset, empty or set.
NoEnv == [e \in EnvNames |-> None]
Envs == [EnvNames -> {None, "", "from-env"}]

NotLoaded == [loaded |-> FALSE, value |-> NoKeys]

\* A loader that lets a variable of the environment override the file.
LoadConfigEnvFirst(file, env) ==
    [k \in ConfigKeys |->
        IF env[EnvName(k)] # None \/ ~file.exists \/ k \notin DOMAIN file.json
          THEN env[EnvName(k)] ELSE file.json[k]]
\* _load_config: the file's object when the file exists, else the four
\* variables of the environment.
LoadConfig(file, env) ==
    IF file.exists THEN file.json ELSE [k \in ConfigKeys |-> env[EnvName(k)]]

\* dict.get(key)
Get(dict, key) == IF key \in DOMAIN dict THEN dict[key] ELSE None

\* Lines 20 to 24 of the constructor: load the configuration and copy the
\* four values.
_load_config ==
    /\ ~config.loaded
    /\ pc = "_load_config"
    /\ config' = [loaded |-> TRUE, value |-> LoadConfig(cfgFile, cfgEnv)]
    /\ url' = Get(config'.value, "url")
    /\ db' = Get(config'.value, "db")
    /\ username' = Get(config'.value, "username")
    /\ password' = Get(config'.value, "password")
    /\ pc' = "__init__"
    /\ UNCHANGED <<script, uid, i, j, n, cur, lists, outcome, exc, remoteVars, callVars,
                   authVars, loopVars, steps, facadeVars, cfgFile, cfgEnv>>

\* ------------------------------------------------ check_journal_entries.py

\* A check that creates a row instead of reading.
CheckRowsCreate(model, limit, out, next) ==
    \E a \in Answers :
        /\ ExecuteKw(model, "create", 0, 0, 0, a, <<nextId>>)
        /\ UNCHANGED <<fixedVars, authVars, loopVars, i, n, cur>>
        /\ lists' = [lists EXCEPT ![out] = IF a.ok THEN <<nextId>> ELSE <<>>]
        /\ Goto(next)
\* One check method: try: entries = search_read(model, limit); return entries
\* except Exception: return []
CheckEntries(model, limit, out, next) ==
    \E a \in Answers : \E k \in (IF a.ok THEN 0..limit ELSE {0}) :
        /\ k <= MaxFound
        /\ ExecuteKw(model, "search_read", 0, 0, 0, a, Rows(model, k))
        /\ UNCHANGED <<fixedVars, authVars, loopVars, i, n, cur>>
        /\ IF a.ok \/ ExceptException(a.kind)
             THEN /\ lists' = [lists EXCEPT ![out] = IF a.ok THEN Rows(model, k) ELSE <<>>]
                  /\ Goto(next)
             ELSE UNCHANGED lists /\ Raise(a.kind)

check_all_entries ==
    /\ script = "check_journal_entries"
    /\ TopLevel("check_journal_entries")

check_journal_entries ==
    /\ script = "check_journal_entries"
    /\ pc = "check_journal_entries"
    /\ CheckEntries("account.move", 20, "journal_entries", "check_accounting_moves")

check_accounting_moves ==
    /\ script = "check_journal_entries"
    /\ pc = "check_accounting_moves"
    /\ CheckEntries("account.move", 10, "accounting_moves", "check_recent_entries")

check_recent_entries ==
    /\ script = "check_journal_entries"
    /\ pc = "check_recent_entries"
    /\ CheckEntries("account.move", 10, "recent_entries", "done")

\* ------------------------------------------------ simulate_balance_data.py

simulate_all_balance_data ==
    /\ script = "simulate_balance_data"
    /\ TopLevel("get_existing_data")

get_existing_data ==
    /\ script = "simulate_balance_data"
    /\ pc = "get_existing_data"
    /\ SearchInto("res.partner", 10, "partner_ids", "get_existing_data_products")

get_existing_data_products ==
    /\ script = "simulate_balance_data"
    /\ pc = "get_existing_data_products"
    /\ SearchInto("product.product", 10, "product_ids", "create_financial_transactions")

\* The simulated transactions, balances and reports are computed locally and
\* saved to local files; nothing is sent to the remote.
create_financial_transactions ==
    /\ script = "simulate_balance_data"
    /\ pc = "create_financial_transactions"
    /\ LocalStep("done")
    /\ UNCHANGED lists

\* --------------------------------------- odoo_mcp_example.py, test_odoo_mcp.py

\* return False
ReturnFalse ==
    /\ pc' = "done"
    /\ outcome' = "failure"
    /\ UNCHANGED <<steps, exc>>

\* common.authenticate inside the function's try: a raise or a falsy uid
\* ends the function with False.
FunctionAuthenticate(next) ==
    \E a \in Answers : \E u \in (IF a.ok THEN UidAnswers ELSE {0}) :
        /\ CommonCall("authenticate", a, <<u>>)
        /\ authCalls' = authCalls + 1
        /\ authRes' = IF ~a.ok THEN "raised" ELSE IF u # 0 THEN "ok" ELSE "falsy"
        /\ authUid' = u
        /\ uid' = u
        /\ UNCHANGED <<script, url, db, username, password, loopVars, i, j, n, cur, lists>>
        /\ IF a.ok /\ u # 0
             THEN IF next = "done" THEN Goto(next) ELSE Jump(next)
             ELSE ReturnFalse

\* The proxies could not be built: the outer handler returns False.
ProxyFailure ==
    /\ NoCall
    /\ UNCHANGED <<fixedVars, authVars, loopVars, i, n, cur, lists>>
    /\ ReturnFalse

\* odoo_mcp_example: the proxies and the authentication.
test_odoo_mcp ==
    /\ script = "odoo_mcp_example"
    /\ pc = "__init__"
    /\ IF SupportedUrl(url) THEN FunctionAuthenticate("employees") ELSE ProxyFailure

\* One example search: the rows are printed; a raise is printed too.
ExampleSearch(model, limit, next) ==
    \E a \in Answers : \E k \in (IF a.ok THEN 0..limit ELSE {0}) :
        /\ k <= MaxFound
        /\ ExecuteKw(model, "search_read", 0, 0, 0, a, Rows(model, k))
        /\ UNCHANGED <<fixedVars, authVars, loopVars, i, n, cur, lists>>
        /\ Jump(next)

test_odoo_mcp_employees ==
    /\ script = "odoo_mcp_example"
    /\ pc = "employees"
    /\ ExampleSearch("hr.employee", 5, "partners")

test_odoo_mcp_partners ==
    /\ script = "odoo_mcp_example"
    /\ pc = "partners"
    /\ ExampleSearch("res.partner", 5, "products")

test_odoo_mcp_products ==
    /\ script = "odoo_mcp_example"
    /\ pc = "products"
    /\ ExampleSearch("product.product", 5, "version")

\* common.version(); when it raises, db_exist is skipped and the function
\* still returns True.
test_odoo_mcp_version ==
    /\ script = "odoo_mcp_example"
    /\ pc = "version"
    /\ UNCHANGED <<fixedVars, authVars, loopVars, i, n, cur, lists>>
    /\ \E a \in Answers :
        /\ CommonCall("version", a, <<>>)
        /\ IF a.ok THEN Jump("db_exist") ELSE Goto("done")

test_odoo_mcp_db_exist ==
    /\ script = "odoo_mcp_example"
    /\ pc = "db_exist"
    /\ UNCHANGED <<fixedVars, authVars, loopVars, i, n, cur, lists>>
    /\ \E a \in Answers :
        /\ CommonCall("db_exist", a, <<>>)
        /\ Goto("done")

\* test_odoo_mcp.py: the proxy and common.version().
test_odoo_connection ==
    /\ script = "test_odoo_mcp"
    /\ pc = "__init__"
    /\ IF SupportedUrl(url)
         THEN /\ UNCHANGED <<fixedVars, authVars, loopVars, i, n, cur, lists>>
              /\ \E a \in Answers :
                    /\ CommonCall("version", a, <<>>)
                    /\ IF a.ok THEN Jump("authenticate") ELSE ReturnFalse
         ELSE ProxyFailure

test_odoo_connection_authenticate ==
    /\ script = "test_odoo_mcp"
    /\ pc = "authenticate"
    /\ FunctionAuthenticate("done")

\* ------------------------------------------------------ add_dummy_data.py

\* The ids random.randint(1000, 9999) may give.
SimulatedIds == {1000, 9999}

\* _simulate_create_record: a success response with a random id; nothing is
\* sent to the remote.
_simulate_create_record(model) ==
    {[success |-> TRUE, id |-> id, model |-> model] : id \in SimulatedIds}

\* One pass of the loop of an add_* method over its count records: the
\* record is reported as created with the id of the simulated response.
SimulatedLoop(model, count, out, next) ==
    \E result \in _simulate_create_record(model) :
        /\ NoCall
        /\ UNCHANGED <<fixedVars, authVars, loopVars, cur, n, steps, exc>>
        /\ lists' = [lists EXCEPT ![out] = IF result.success THEN Append(@, result.id) ELSE @]
        /\ IF i + 1 < count
             THEN i' = i + 1 /\ UNCHANGED <<pc, outcome>>
             ELSE /\ i' = 0
                  /\ pc' = next
                  /\ outcome' = IF next = "done" THEN "none" ELSE outcome

OdooDataManager_add_all_dummy_data ==
    /\ script = "add_dummy_data"
    /\ pc = "add_all_dummy_data"
    /\ NoCall
    /\ pc' = "add_contacts"
    /\ UNCHANGED <<fixedVars, authVars, loopVars, i, n, cur, lists, steps, outcome, exc>>

OdooDataManager_add_contacts ==
    /\ script = "add_dummy_data"
    /\ pc = "add_contacts"
    /\ SimulatedLoop("res.partner", 4, "partner_ids", "add_products")

OdooDataManager_add_products ==
    /\ script = "add_dummy_data"
    /\ pc = "add_products"
    /\ SimulatedLoop("product.product", 4, "product_ids", "add_employees")

OdooDataManager_add_employees ==
    /\ script = "add_dummy_data"
    /\ pc = "add_employees"
    /\ SimulatedLoop("hr.employee", 3, "employee_ids", "add_sales_orders")

OdooDataManager_add_sales_orders ==
    /\ script = "add_dummy_data"
    /\ pc = "add_sales_orders"
    /\ SimulatedLoop("sale.order", 2, "order_ids", "done")

\* ------------------------------------------------------ the specification

Next ==
    \/ __init__
    \/ _authenticate
    \/ add_all_financial_data
    \/ get_or_create_partners
    \/ get_or_create_partners_create
    \/ get_or_create_products
    \/ get_or_create_products_create
    \/ create_selling_contracts
    \/ create_open_invoices
    \/ create_open_invoices_post
    \/ create_open_payments
    \/ add_all_basic_financial_data
    \/ existing_partners
    \/ existing_products
    \/ create_more_partners
    \/ create_more_products
    \/ create_quotes_and_orders
    \/ create_opportunities
    \/ create_tasks_and_projects
    \/ create_tasks_and_projects_task
    \/ add_all_dummy_data
    \/ add_contacts
    \/ add_products
    \/ add_employees
    \/ add_sales_orders
    \/ create_all_accounting_entries
    \/ create_chart_of_accounts
    \/ create_journal_entries
    \/ create_journal_entries_post
    \/ create_invoices
    \/ create_invoices_products
    \/ create_invoices_create
    \/ create_invoices_post
    \/ import_all_fixed_assets
    \/ create_asset_categories
    \/ create_fixed_assets
    \/ create_fixed_assets_write
    \/ create_depreciation_entries
    \/ generate_assets_summary
    \/ save_assets_data
    \/ check_all_data
    \/ check_partners
    \/ check_products
    \/ check_sales_orders
    \/ check_invoices
    \/ OdooDummyIngest__init__
    \/ authenticate
    \/ _create_partners
    \/ _create_partners_suppliers
    \/ _create_products
    \/ _create_sales_orders
    \/ _create_sales_orders_confirm
    \/ _create_purchase_orders
    \/ _create_purchase_orders_confirm
    \/ _create_invoices
    \/ _create_invoices_post
    \/ _create_credit_notes
    \/ _create_credit_notes_post
    \/ _create_payments
    \/ _create_payments_post
    \/ _create_assets
    \/ _create_journal_entries
    \/ _create_journal_entries_accounts
    \/ _create_journal_entries_create
    \/ _create_journal_entries_post
    \/ create_creditor_partner
    \/ create_creditor_partner_create
    \/ create_debitsaldo_invoice
    \/ create_debitsaldo_invoice_fallback
    \/ create_debitsaldo_invoice_create
    \/ create_debitsaldo_invoice_post
    \/ create_credit_note
    \/ create_credit_note_fallback
    \/ create_credit_note_create
    \/ create_credit_note_post
    \/ verify_debitsaldo

\* No facade request and no configuration load is under way.
NoFacade == server_uid = 0 /\ reqs = [r \in Requests |-> IdleRequest]
NoConfig == cfgFile = NoFile /\ cfgEnv = NoEnv /\ config = NotLoaded

\* A run of one script.
Init == ScriptInit /\ NoFacade /\ NoConfig

Spec == Init /\ [][Next]_vars

\* The facade serving requests; requests interleave at each await.
FacadeInit == NoScript("") /\ NoFacade /\ NoConfig

FacadeNext ==
    \/ MethodNotAllowed
    \/ health
    \/ get_models
    \/ get_model_info
    \/ search_records
    \/ execute_query
    \/ search_read
    \/ SimpleMCPOdooServer_get_models
    \/ authenticate_answered
    \/ call_kw_answered

FacadeSpec == FacadeInit /\ [][FacadeNext]_vars

\* A run of one inspection script, or the facade serving requests.
InspectionInit ==
    \/ Configured(InspectionScripts) /\ NoFacade /\ NoConfig
    \/ FacadeInit

InspectionNext ==
    \/ __init__
    \/ _authenticate
    \/ check_all_data
    \/ check_partners
    \/ check_products
    \/ check_sales_orders
    \/ check_invoices
    \/ check_all_entries
    \/ check_journal_entries
    \/ check_accounting_moves
    \/ check_recent_entries
    \/ simulate_all_balance_data
    \/ get_existing_data
    \/ get_existing_data_products
    \/ create_financial_transactions
    \/ test_odoo_mcp
    \/ test_odoo_mcp_employees
    \/ test_odoo_mcp_partners
    \/ test_odoo_mcp_products
    \/ test_odoo_mcp_version
    \/ test_odoo_mcp_db_exist
    \/ test_odoo_connection
    \/ test_odoo_connection_authenticate
    \/ script = "" /\ FacadeNext

InspectionSpec == InspectionInit /\ [][InspectionNext]_vars

\* A run of add_dummy_data's add_all_dummy_data.
SimulationInit == Fresh("add_dummy_data", "add_all_dummy_data") /\ NoFacade /\ NoConfig

SimulationNext ==
    \/ OdooDataManager_add_all_dummy_data
    \/ OdooDataManager_add_contacts
    \/ OdooDataManager_add_products
    \/ OdooDataManager_add_employees
    \/ OdooDataManager_add_sales_orders

SimulationSpec == SimulationInit /\ [][SimulationNext]_vars

\* The configuration load of a config-family constructor, over every file
\* and environment.
ConfigInit ==
    /\ NoScript("_load_config")
    /\ NoFacade
    /\ cfgFile \in Files
    /\ cfgEnv \in Envs
    /\ config = NotLoaded

ConfigNext == _load_config

ConfigSpec == ConfigInit /\ [][ConfigNext]_vars

\* ------------------------------------------------------------- the claims

\* The step methods each top-level operation calls, in order.
AllSteps(s) ==
    CASE s = "add_financial_data" ->
           <<"get_or_create_partners", "get_or_create_products", "create_selling_contracts",
             "create_open_invoices", "create_open_payments">>
      [] s = "add_basic_financial_data" ->
           <<"create_more_partners", "create_more_products", "create_quotes_and_orders",
             "create_opportunities", "create_tasks_and_projects">>
      [] s = "real_odoo_data" ->
           <<"add_contacts", "add_products", "add_employees", "add_sales_orders">>
      [] s = "create_accounting_entries" ->
           <<"create_chart_of_accounts", "create_journal_entries", "create_invoices">>
      [] s = "import_fixed_assets" ->
           <<"create_asset_categories", "create_fixed_assets", "create_depreciation_entries",
             "generate_assets_summary", "save_assets_data">>
      [] s = "check_odoo_data" ->
           <<"check_partners", "check_products", "check_sales_orders", "check_invoices">>
      [] s = "dummy_ingest" ->
           <<"_create_partners", "_create_products", "_create_sales_orders",
             "_create_purchase_orders", "_create_invoices", "_create_credit_notes",
             "_create_payments", "_create_assets", "_create_journal_entries">>
      [] s = "add_creditor_debitsaldo" ->
           <<"create_creditor_partner", "create_debitsaldo_invoice", "create_credit_note",
             "verify_debitsaldo">>

\* C1: an execute_kw call is sent only when authenticate has returned a
\* truthy uid; when authentication returned a falsy value, raised, or was
\* skipped, the run sends no execute_kw call at all.
C1_ExecuteOnlyAfterAuth ==
    /\ execCount > 0 => authRes = "ok" /\ authUid # 0 /\ uid = authUid
    /\ lastCall.svc = "object" => authRes = "ok"
    /\ authRes \in {"none", "skipped", "falsy", "raised"} => execCount = 0 /\ created = {}

\* A run whose authentication succeeded has sent an execute_kw call.
C1_Witness == authRes = "ok" /\ lastCall.svc = "object" /\ execCount > 0

\* The loop that ran last is over: the run has ended, or the loop moved on.
LoopLeft == pc = "done" \/ (i = 0 /\ cur = 0)

\* C2: a per-record loop attempts each record exactly once and in order; a
\* record whose call raises, whatever the exception, does not keep the later
\* records from being attempted, none is attempted again, and the loop gets
\* to its last record.
C2_EachRecordOnce ==
    /\ \A k \in DOMAIN attempts : attempts[k] = k
    /\ Len(attempts) <= loopLen
    /\ (loopName # "" /\ LoopLeft) => Len(attempts) = loopLen

\* The four-product loop of dummy_ingest is over: its second record raised,
\* its last one was created.
C2_Witness ==
    /\ script = "dummy_ingest"
    /\ loopName = "_create_products"
    /\ pc = "_create_sales_orders"
    /\ attempts = <<1, 2, 3, 4>>
    /\ Len(lists["products"]) = 3
    /\ lastCall.rec = 4 /\ lastCall.ok

\* C3: once authentication has succeeded the top-level operation returns
\* normally whatever remote calls fail: no exception leaves it.
C3_ReturnsNormally == authRes = "ok" => outcome # "raised"

\* C4 as written: authentication failure is the only thing that ends a run
\* early; with authentication done every step is entered.
C4_OnlyAuthStops == (pc = "done" /\ authRes = "ok") => steps = AllSteps(script)

\* C4, amended: a run that authenticated ends before its last step only
\* when the connection check failed (config family), when a step of the
\* creditor run returned no id, or when create_journal_entries raised
\* IndexError; a failed connection check always ends the run before its
\* first step, and no failed create of a per-record loop ends a run.
C4_EarlyStops ==
    /\ (pc = "done" /\ authRes = "ok" /\ steps # AllSteps(script)) =>
          \/ /\ script \in ConfigFamily
             /\ outcome = "none" /\ steps = <<>>
             /\ lastCall.method = "version" /\ ~lastCall.ok
          \/ /\ script = "add_creditor_debitsaldo"
             /\ outcome = "failure"
             /\ lastCall.method \in {"create", "action_post"} /\ ~lastCall.ok
          \/ /\ script = "create_accounting_entries"
             /\ outcome = "raised" /\ exc = "IndexError"
    /\ (lastCall.method = "version" /\ ~lastCall.ok) =>
          pc = "done" /\ outcome = "none" /\ steps = <<>>
    /\ (authRes # "ok" /\ pc = "done") => steps = <<>>
    /\ (outcome = "result" /\ script # "add_creditor_debitsaldo") => steps = AllSteps(script)

\* A run that lost a contact to a failed create has entered every step and
\* returned its dict.
C4_Witness ==
    /\ script = "real_odoo_data"
    /\ outcome = "result"
    /\ Len(lists["partner_ids"]) < 3
    /\ steps = AllSteps(script)

\* The facade has answered request r.
Answered(r) == reqs[r].pc = "done"

\* The answered request r came in as verb on route.
Served(r, verb, route) == Answered(r) /\ reqs[r].verb = verb /\ reqs[r].route = route

\* The response to r is the outcome of the one call r issued.
CallOutcome(r) ==
    LET q == reqs[r] IN
    /\ q.calls = 1
    /\ q.sent.method = "search_read"
    /\ q.sent.uid # 0
    /\ q.answer.kind = "result" => q.body.kind = "success" /\ q.body.data = q.answer.rows
    /\ q.answer.kind \in {"error", "raise"} => q.body.kind = "error"
    /\ q.answer.kind = "status" => q.body.kind = "null"

\* C5 as stated: handling a request to any of the five routes, with the
\* method the interface names for it, issues a remote object call and the
\* response is that call's outcome.
C5_PassThrough ==
    \A r \in Requests :
        (\/ \E route \in Routes \ {"/api/execute"} : Served(r, "GET", route)
         \/ Served(r, "POST", "/api/execute"))
            => CallOutcome(r)

\* C5: GET /health and GET /odoo://model/{model} answer with a fixed body
\* and issue no remote request.  A GET on one of the three other routes
\* issues at most one authentication request and at most one object call:
\* the response is that call's outcome (success with the rows, the error, or
\* null for a status other than 200) when the call is issued, and an error
\* without any call when the domain or body does not parse or no uid is
\* obtained.  A POST is refused with 405 on every route and issues nothing.
C5_RouteOutcomes ==
    \A r \in Requests : Answered(r) =>
        LET q == reqs[r] IN
        /\ q.auths <= 1 /\ q.calls <= 1
        /\ q.status = 405 <=> q.verb = "POST"
        /\ q.status = 405 => q.calls = 0 /\ q.auths = 0 /\ q.handler = ""
        /\ Served(r, "GET", "/health") =>
              q.calls = 0 /\ q.auths = 0 /\ q.body.kind = "health"
        /\ Served(r, "GET", "/odoo://model/{model}") =>
              q.calls = 0 /\ q.auths = 0 /\ q.body.kind = "model_info"
                 /\ q.body.model = q.pathModel
        /\ (q.verb = "GET" /\ q.route \in {"/odoo://models",
                "/odoo://search/{model}/{domain}", "/api/execute"}) =>
              /\ q.calls = 1 => CallOutcome(r) /\ q.sent.model = q.args.model
                                  /\ q.sent.domain = q.args.domain
              /\ q.calls = 0 => q.body.kind = "error"
        /\ Served(r, "GET", "/odoo://search/{model}/{domain}") /\ q.calls = 1 =>
              q.sent.model = q.pathModel /\ q.sent.fields = <<"id", "name">>
                 /\ q.sent.limit = 100
        /\ Served(r, "GET", "/odoo://models") /\ q.calls = 1 => q.sent.model = "ir.model"

\* A search whose call was answered with another status than 200 is
\* answered with null, after the one authentication that gave the uid.
C5_Witness ==
    \E r \in Requests :
        /\ Served(r, "GET", "/odoo://search/{model}/{domain}")
        /\ reqs[r].auths = 1 /\ reqs[r].calls = 1
        /\ reqs[r].answer.kind = "status"
        /\ reqs[r].body.kind = "null"

\* C6 as stated: a POST to /api/execute is routed to execute_query, which
\* forwards the body's model, domain, fields and limit to search_read.
C6_PostExecuteAccepted ==
    \A r \in Requests : Served(r, "POST", "/api/execute") =>
        /\ reqs[r].handler = "execute_query"
        /\ reqs[r].status = 200

\* C7: _load_config returns the four variables of the environment when the
\* file does not exist and exactly the file's object when it exists,
\* whatever is missing or empty; the constructor copies what it returned,
\* None standing for a key the object lacks.
C7_LoadConfig ==
    config.loaded =>
        /\ ~cfgFile.exists =>
              /\ DOMAIN config.value = ConfigKeys
              /\ config.value["url"] = cfgEnv["ODOO_URL"]
              /\ config.value["db"] = cfgEnv["ODOO_DB"]
              /\ config.value["username"] = cfgEnv["ODOO_USERNAME"]
              /\ config.value["password"] = cfgEnv["ODOO_PASSWORD"]
        /\ cfgFile.exists => config.value = cfgFile.json
        /\ \A k \in ConfigKeys \cap DOMAIN config.value :
              /\ k = "url" => url = config.value[k]
              /\ k = "db" => db = config.value[k]
              /\ k = "username" => username = config.value[k]
              /\ k = "password" => password = config.value[k]
        /\ "password" \notin DOMAIN config.value => password = None

\* A file that holds an empty url and no password is returned as it is,
\* though the environment sets both.
C7_Witness ==
    /\ config.loaded
    /\ cfgFile.exists
    /\ cfgEnv["ODOO_URL"] = "from-env" /\ cfgEnv["ODOO_PASSWORD"] = "from-env"
    /\ "url" \in DOMAIN cfgFile.json /\ cfgFile.json["url"] = ""
    /\ "password" \notin DOMAIN cfgFile.json
    /\ url = "" /\ password = None

\* _authenticate has run.
Authenticated == authRes # "none"

\* C8: _authenticate returns None, and sends no authentication request,
\* when the username or the password is absent (None or empty); it also
\* returns None when the remote returns a falsy uid or raises.
C8_AuthenticateNone ==
    script \in ConfigFamily =>
      /\ (pc \in {"top", "done"} /\ exc # "OSError") => Authenticated
      /\ Authenticated =>
           (authRes = "skipped" <=> (username \in {None, ""} \/ password \in {None, ""}))
      /\ authRes = "skipped" => authCalls = 0 /\ uid = 0 /\ lastCall = NoCallYet
      /\ authRes \in {"falsy", "raised"} => authCalls = 1 /\ uid = 0
      /\ authRes = "ok" => authCalls = 1 /\ uid = authUid /\ uid # 0

\* _authenticate returned None without a request: the password is empty.
C8_Witness ==
    /\ script \in ConfigFamily
    /\ pc = "top"
    /\ password = "" /\ username = "admin"
    /\ authRes = "skipped" /\ uid = 0 /\ authCalls = 0

\* C9 as written: authenticate is called exactly once per script run, and
\* every execute_kw call carries the uid it returned.
C9_ExactlyOnce ==
    /\ pc = "done" => authCalls = 1
    /\ lastCall.svc = "object" => lastCall.uid = authUid

\* C9, amended: authenticate is called at most once per run; it is not
\* called at all when the constructor raises or, in the config family, when
\* the username or the password is absent, and exactly once otherwise; every
\* execute_kw call carries the uid that one call returned.
C9_AtMostOnce ==
    /\ authCalls <= 1
    /\ authCalls = 0 =>
         \/ pc \in {"__init__", "_authenticate", "authenticate"}
         \/ outcome = "raised" /\ exc \in {"OSError", "RuntimeError"} /\ authRes = "none"
         \/ /\ script \in ConfigFamily
            /\ authRes = "skipped"
            /\ username \in {None, ""} \/ password \in {None, ""}
    /\ lastCall.svc = "object" => authCalls = 1 /\ lastCall.uid = authUid /\ authUid # 0

\* A whole run after its one authenticate call: the last execute_kw call
\* carried the uid that call returned.
C9_Witness ==
    /\ pc = "done" /\ outcome = "result"
    /\ authCalls = 1
    /\ lastCall.svc = "object" /\ lastCall.uid = authUid /\ authUid # 0

\* C10: the create of an invoice names only a partner id an earlier
\* successful call returned; a post or confirm call is sent only for the id
\* the create just before it returned, never for any other id.
C10_OnlyReturnedIds ==
    /\ (lastCall.svc = "object" /\ lastCall.method = "create" /\ lastCall.ref # 0) =>
          <<"res.partner", lastCall.ref>> \in returned
    /\ lastCall.method \in PostMethods =>
          /\ <<lastCall.model, lastCall.arg>> \in returned
          /\ lastCall.arg \in created
          /\ lastCall.arg = nextId - 1
    /\ posted \subseteq created

\* dummy_ingest has created and posted its three invoices.
C10_Witness ==
    /\ script = "dummy_ingest"
    /\ pc = "_create_credit_notes"
    /\ Len(lists["invoices"]) = 3
    /\ lastCall.method = "action_post" /\ lastCall.ok
    /\ lastCall.arg \in posted

\* The lists that hold values other than record ids.
ValueLists == {"balance_info", "asset_records", "depreciation_amounts", "summary"}

\* The calls that follow a create on the record it made.
FollowUps == PostMethods \cup {"write"}

\* The ids held by the lists the steps return.
AllListed == UNION {Range(lists[l]) : l \in ListNames \ ValueLists}

\* C11: no script issues a compensating call.  Every id the remote handed
\* out still exists; when the follow-up call (post, confirm or write) on a
\* created record fails, the record stays in the remote system and its id is
\* in none of the lists the steps return.
C11_NoRollback ==
    /\ created = 1..(nextId - 1)
    /\ lastCall.method \in {"", "authenticate", "version", "create", "search_read",
                            "search", "read"} \cup FollowUps
    /\ (lastCall.svc = "object" /\ lastCall.method \in FollowUps /\ ~lastCall.ok) =>
          lastCall.arg \in created /\ lastCall.arg \notin AllListed
    /\ AllListed \cap 1..99 \subseteq created

\* The import ends with an asset whose write failed: the asset exists and
\* is not among the created assets.
C11_Witness ==
    /\ script = "import_fixed_assets"
    /\ outcome = "result"
    /\ lastCall.method = "write" /\ ~lastCall.ok
    /\ lastCall.arg \in created
    /\ lastCall.arg \notin Range(lists["assets"])
    /\ Len(lists["assets"]) = 9

\* The lists of run()'s result whose records are confirmed or posted.
PostedLists ==
    {"sales_orders", "purchase_orders", "invoices", "credit_notes", "payments",
     "journal_entries"}

\* C12: in dummy_ingest every id held under sales_orders, purchase_orders,
\* invoices, credit_notes, payments and journal_entries is the id of a
\* record the run created and whose confirm or post call then succeeded.
C12_AllPosted ==
    script = "dummy_ingest" =>
        \A l \in PostedLists : Range(lists[l]) \subseteq posted \cap created

\* A run that returns a posted journal entry and three posted invoices,
\* while a sales order it created stayed unconfirmed and is not returned.
C12_Witness ==
    /\ script = "dummy_ingest"
    /\ outcome = "result"
    /\ Len(lists["journal_entries"]) = 1
    /\ Len(lists["invoices"]) = 3
    /\ lists["sales_orders"] = <<>>
    /\ \E id \in created :
          /\ id \notin posted
          /\ id \notin Range(lists["partners"]) \cup Range(lists["products"])
                       \cup Range(lists["assets"])

\* The ids add_dummy_data has reported as created.
ReportedCreated ==
    Range(lists["partner_ids"]) \cup Range(lists["product_ids"])
        \cup Range(lists["employee_ids"]) \cup Range(lists["order_ids"])

\* C13 as stated: add_all_dummy_data issues a remote create for each
\* record, and reports a record as created only if that create succeeded.
C13_CreatesRemotely ==
    script = "add_dummy_data" =>
        /\ ReportedCreated \subseteq created
        /\ pc = "done" => execCount = 13

\* C14 as stated: when run() returns success = True, balance_info says the
\* creditor has a debit balance.
C14_SuccessHasDebitsaldo ==
    (script = "add_creditor_debitsaldo" /\ outcome = "result") =>
        has_debitsaldo(lists["balance_info"])

\* The remote methods that read.
ReadingMethods == {"authenticate", "version", "db_exist", "read", "search_read"}

\* C15: the inspection scripts and the facade leave the remote data
\* unchanged.  Every remote call they issue is authenticate, version,
\* db_exist, read or search_read; no record is created or posted.
C15_ReadOnly ==
    /\ lastCall.method \in ReadingMethods \cup {""}
    /\ \A r \in Requests : reqs[r].sent.method \in ReadingMethods \cup {""}
    /\ created = {} /\ posted = {} /\ nextId = 1

\* The example script has run its three searches and both common calls.
C15_Witness ==
    /\ script = "odoo_mcp_example"
    /\ outcome = "result"
    /\ execCount = 3
    /\ lastCall.method = "db_exist"

\* The ids of model that the initial search found, and those its creates
\* returned (rows that exist before the run have ids of 100 and above).
FoundIds(model) == {c[2] : c \in {c \in returned : c[1] = model /\ c[2] >= 100}}
CreatedIds(model) == {c[2] : c \in {c \in returned : c[1] = model /\ c[2] < 100}}

\* get_or_create_partners or get_or_create_products, for model and its list
\* out; the method has not returned while pc is one of before.
GetOrCreate(model, out, before) ==
    /\ (FoundIds(model) # {} /\ pc \notin before) =>
          Range(lists[out]) = FoundIds(model) /\ Len(lists[out]) = Cardinality(FoundIds(model))
    /\ FoundIds(model) # {} => CreatedIds(model) = {}
    /\ (lastCall.method = "create" /\ lastCall.model = model) =>
          FoundIds(model) = {} /\ lastCall.rec \in 1..3
    /\ Cardinality(CreatedIds(model)) <= 3
    /\ FoundIds(model) = {} => Range(lists[out]) = CreatedIds(model)

\* C16: in add_financial_data, when the initial search_read returns at
\* least one record, no create is issued for the model and the ids returned
\* are exactly those of the records found; the three default records are
\* created only when the search returned nothing or raised.
C16_GetOrCreate ==
    script = "add_financial_data" =>
        /\ GetOrCreate("res.partner", "partner_ids",
                       {"__init__", "_authenticate", "top", "get_or_create_partners"})
        /\ GetOrCreate("product.product", "product_ids",
                       {"__init__", "_authenticate", "top", "get_or_create_partners",
                        "get_or_create_partners_create", "get_or_create_products"})

\* Partners were found and are returned as found, while the product search
\* raised and the three default products were created.
C16_Witness ==
    /\ script = "add_financial_data"
    /\ pc = "create_selling_contracts"
    /\ lists["partner_ids"] = Rows("res.partner", 2)
    /\ CreatedIds("res.partner") = {}
    /\ FoundIds("product.product") = {}
    /\ Len(lists["product_ids"]) = 3

\* The steps of CreditorDebitsaldoCreator.run in order, and the list that
\* holds the id each of the first three returns.
CreditorSteps ==
    <<"create_creditor_partner", "create_debitsaldo_invoice", "create_credit_note",
      "verify_debitsaldo">>
CreditorResult == <<"creditor_id", "invoice_id", "credit_id">>

\* C17: run() enters its steps in the order partner, supplier invoice,
\* credit note, balance check, and enters a step only when every earlier
\* step returned an id.  It returns its failure dict right after the failed
\* call of the first step that returns none, and it returns success only
\* when the partner was created and the invoice and the credit note were
\* created and posted.
C17_StepsInOrder ==
    script = "add_creditor_debitsaldo" =>
        /\ Len(steps) <= 4
        /\ \A k \in DOMAIN steps : steps[k] = CreditorSteps[k]
        /\ \A k \in 1..3 :
              /\ k < Len(steps) => lists[CreditorResult[k]] # <<>>
              /\ k > Len(steps) => lists[CreditorResult[k]] = <<>>
        /\ outcome = "failure" =>
              /\ Len(steps) \in 1..3
              /\ lists[CreditorResult[Len(steps)]] = <<>>
              /\ ~lastCall.ok /\ lastCall.method \in {"create", "action_post"}
              /\ lastCall.model = (IF Len(steps) = 1 THEN "res.partner" ELSE "account.move")
        /\ outcome = "result" =>
              /\ steps = CreditorSteps
              /\ lastCall.method = "read"
              /\ \A k \in 1..3 : Range(lists[CreditorResult[k]]) \subseteq created
              /\ Range(lists["invoice_id"]) \cup Range(lists["credit_id"]) \subseteq posted

\* The run gave up at the credit note, whose post failed: partner and
\* invoice exist, the balance check was never entered.
C17_Witness ==
    /\ script = "add_creditor_debitsaldo"
    /\ outcome = "failure"
    /\ Len(steps) = 3
    /\ lists["invoice_id"] # <<>>
    /\ lastCall.method = "action_post" /\ ~lastCall.ok

\* The last call created a supplier document of dummy_ingest: the third
\* invoice (in_invoice) or the second credit note (in_refund).
SupplierDocument ==
    /\ script = "dummy_ingest"
    /\ lastCall.method = "create" /\ lastCall.model = "account.move"
    /\ \/ loopName = "_create_invoices" /\ lastCall.rec = 3
       \/ loopName = "_create_credit_notes" /\ lastCall.rec = 2

\* C18 as stated: the partner of a supplier document is a partner that
\* _create_partners created from its suppliers list, never one created from
\* its customers list.
C18_SupplierDocsToSuppliers ==
    SupplierDocument => lastCall.ref \in Range(lists["supplier_partners"])

\* create_depreciation_entries has returned.
DepreciationDone ==
    /\ script = "import_fixed_assets"
    /\ "generate_assets_summary" \in Range(steps)

\* The record of assets_data the asset of depreciation entry k was made from.
EntryRecord(k) == lists["asset_records"][((k - 1) \div Months) + 1]

\* C19 as stated: create_depreciation_entries produces exactly 12 monthly
\* entries for every created asset, and the amount of each entry is
\* original_value * depreciation_percentage / 100 / 12 with the
\* depreciation_percentage the asset was imported with.
C19_OwnRate ==
    DepreciationDone =>
        /\ Len(lists["depreciation_entries"]) = 12 * Len(lists["assets"])
        /\ Len(lists["depreciation_amounts"]) = 12 * Len(lists["assets"])
        /\ \A k \in DOMAIN lists["depreciation_amounts"] :
              /\ lists["depreciation_entries"][k] = lists["assets"][((k - 1) \div 12) + 1]
              /\ lists["depreciation_amounts"][k] =
                    MonthlyDepreciation(AssetsData[EntryRecord(k)].original_value,
                        AssetsData[EntryRecord(k)].depreciation_percentage)

\* generate_assets_summary has returned.
SummaryDone ==
    /\ script = "import_fixed_assets"
    /\ "save_assets_data" \in Range(steps)

\* The positions in created_assets of the assets of category c.
OfCategory(c) ==
    {at \in DOMAIN lists["asset_records"] : CategoryId(lists["asset_records"][at]) = c}

\* The sum of field f of the assets at positions js.
RECURSIVE Total(_, _)
Total(js, f) ==
    IF js = {} THEN 0
    ELSE LET at == CHOOSE x \in js : TRUE
         IN  AssetsData[lists["asset_records"][at]][f] + Total(js \ {at}, f)

\* The sum of the counts of the first k entries of the categories map.
RECURSIVE Counts(_)
Counts(k) == IF k = 0 THEN 0 ELSE lists["summary"][k].count + Counts(k - 1)

\* C20 as stated: the categories map has one entry per distinct asset
\* category among the created assets, each with the count and value totals
\* of the assets of that category, and the counts sum to total_assets.
C20_GroupedByCategory ==
    SummaryDone =>
        LET cats == {CategoryId(r) : r \in Range(lists["asset_records"])}
        IN  /\ Len(lists["summary"]) = Cardinality(cats)
            /\ \A c \in cats : \E k \in DOMAIN lists["summary"] :
                  /\ lists["summary"][k].count = Cardinality(OfCategory(c))
                  /\ lists["summary"][k].original_value = Total(OfCategory(c), "original_value")
                  /\ lists["summary"][k].current_value = Total(OfCategory(c), "current_value")
            /\ Counts(Len(lists["summary"])) = Len(lists["assets"])

\* C21 as stated: under any interleaving of the request handlers at their
\* await points, at most one authentication request is in flight while
\* server.uid is unset: a handler that finds uid unset while another
\* handler's authenticate is still awaiting sends no second authentication.
C21_SingleAuthentication ==
    Cardinality({r \in Requests : reqs[r].pc = "auth"}) <= 1

====
